---- MODULE Spec2Model ----
(***************************************************************************)
(* EpicScoreBot: the aggregation/completion engine                         *)
(* (internal/scoring/scoring.go), the repository statements it runs        *)
(* (internal/repositories) and the Telegram handlers that drive it         *)
(* (internal/telegram).                                                    *)
(*                                                                         *)
(* Every repository call is one SQL statement and therefore one atomic     *)
(* step; a handler is a sequence of such steps run by a goroutine          *)
(* (go-telegram/bot dispatches every update in its own goroutine), so      *)
(* steps of different handlers interleave.                                 *)
(*                                                                         *)
(* float64 values are modelled as exact non-negative rationals             *)
(* [n |-> numerator, d |-> denominator] in lowest terms.                   *)
(***************************************************************************)
EXTENDS Integers, Sequences, FiniteSets, TLC

\* ------------------------------------------------------------------ bounds
\* handlers (updates) started in one behaviour
MaxOps == 4
\* updates handled in one behaviour of the administration
MaxOpsAdmin == 3
\* /addadmin and /removeadmin commands handled concurrently
MaxOpsConfig == 2
\* /addadmin and /removeadmin commands handled one after the other
MaxOpsConfigSeq == 3
\* handlers started in the specification of the conversation flows
MaxOpsFlow == 5
\* updates handled concurrently in the specification of the racing replies
MaxOpsRace == 3
\* operations started in one behaviour of the sequential specification
MaxOpsSeq == 5
\* clicks handled in the specification of the user pickers
MaxOpsPicker == 3
\* updates handled in the chat the members share
MaxOpsShared == 3
\* replies handled concurrently for one pending form
MaxOpsSingle == 2
\* submissions handled concurrently once scoring has started
MaxOpsSubmit == 4
\* the write counters saturate at this value
MaxWrites == 2

\* ------------------------------------------------------------ the universe
Procs == {"p1", "p2"}
Users == {"u1", "u2"}
Roles == {"dev", "qa"}
Epics == {"e1"}
Risks == {"r1", "r2"}
Chats == {"c1", "c2"}

\* domain.Status
StatusNew == "NEW"
StatusScoring == "SCORING"
StatusScored == "SCORED"

\* a NULL final_score; a NULL weighted_score
Nil == -1
NilQ == [n |-> -1, d |-> 1]

\* -------------------------------------------------------------- rationals
RECURSIVE GCD(_, _)
GCD(a, b) == IF b = 0 THEN a ELSE GCD(b, a % b)

Q(n, d) == LET g == GCD(n, d) IN [n |-> n \div g, d |-> d \div g]
QInt(i) == [n |-> i, d |-> 1]
QAdd(a, b) == Q(a.n * b.d + b.n * a.d, a.d * b.d)
QMul(a, b) == Q(a.n * b.n, a.d * b.d)

\* C15, faulty variant: the value is truncated instead of rounded
C15_Truncate(q) == q.n \div q.d

\* math.Round on a non-negative value: halves round away from zero
Round(q) == (2 * q.n + q.d) \div (2 * q.d)

RECURSIVE SumF(_, _)
SumF(f, S) == IF S = {} THEN 0
              ELSE LET x == CHOOSE y \in S : TRUE
                   IN  f[x] + SumF(f, S \ {x})

\* INSERT ... ON CONFLICT (key) DO UPDATE
Upsert(f, k, v) == [x \in (DOMAIN f) \cup {k} |-> IF x = k THEN v ELSE f[x]]

Inc(c) == IF c < MaxWrites THEN c + 1 ELSE c

\* ------------------------------------------------------------------ state
VARIABLES
    users,            \* users: userID -> [exists, weight, role, roles]
                      \* (users, user_roles; role is what GetRoleByUserID
                      \* returns)
    user_teams,       \* members of the one team (user_teams)
    epics,            \* epics: epicID -> [exists, status, final_score]
    risks,            \* risks: riskID -> [exists, epic, status, weighted_score]
    epic_scores,      \* epic_scores: epicID -> rows [user, role, score]
    risk_scores,      \* risk_scores: riskID -> rows [user, probability, impact]
    epic_role_scores, \* epic_role_scores: epicID -> (roleID -> weighted_avg)
    sessions,         \* the session store: chatID -> session
    btnEpic,          \* epics with an "epic_<id>" button in a chat
    btnRisk,          \* risks with "risk_<id>" (riskprob_, riskimp_) buttons
    pc,               \* where each handler goroutine stands
    loc,              \* its local variables
    ops,              \* handlers started so far
    finalWrites,      \* history: SetEpicFinalScore statements run per epic
    riskWrites,       \* history: SetRiskWeightedScore statements run per risk
    calls,            \* history: outcomes of the calls of
                      \* TryCompleteEpicScoring since the last update
    admins,           \* cfg.BotConfig.Admins, the slice in memory
    adminsIdeal,      \* history: the list of the same run of the handlers
                      \* without the commands whose cfg.Write() fails
    pickers           \* history: the buttons of the user pickers sent to
                      \* the chats (shown: <<chat, user, token>>), and the
                      \* user of the picker the handled click was made on

db == <<users, user_teams, epics, risks, epic_scores, risk_scores,
        epic_role_scores>>
cfg == <<admins, adminsIdeal>>
vars == <<users, user_teams, epics, risks, epic_scores, risk_scores,
          epic_role_scores, sessions, btnEpic, btnRisk, pc, loc, ops,
          finalWrites, riskWrites, cfg, pickers, calls>>

\* no picker has been sent
NoPickers == [shown |-> {}, clicked |-> "none"]

\* no entry in the session store; and a Session{} whose Data is empty: the
\* keys of Data the handlers use are fields, left is the time to its expiry
NoSession == [step |-> "none", epicID |-> "none", username |-> "none",
              pendingUserID |-> "none", teamID |-> "none",
              firstName |-> "", lastName |-> "", number |-> "", name |-> "",
              left |-> 0]
NewSession == [NoSession EXCEPT !.step = ""]
StepScoreEpicEffort == "score_epic_effort"
StepAddUserUsername == "add_user_username"
StepAddUserFirstName == "add_user_first_name"
StepAddUserLastName == "add_user_last_name"
StepAddUserWeight == "add_user_weight"
StepRenameUserLastName == "rename_user_last_name"
StepAddEpicName == "add_epic_name"
StepAddEpicDesc == "add_epic_desc"
StepRenameUserFirstName == "rename_user_first_name"
StepChangeRateWeight == "change_rate_weight"
StepAddEpicNumber == "add_epic_number"
StepAddRiskDesc == "add_risk_desc"
\* the time to live of a session, in ticks of the clock
SessionTTL == 2

NoFn == [x \in {} |-> 0]

LocIdle == [chatID |-> "none", epicID |-> "none", riskID |-> "none",
            userID |-> "none", teamID |-> "none",
            data |-> <<>>, action |-> <<>>, idStr |-> <<>>,
            id2Str |-> <<>>, rows |-> {}, reply |-> "none",
            score |-> 0, text |-> "", weight |-> 0,
            sess |-> NoSession, teamMembers |-> 0, count |-> 0,
            roleIDs |-> {}, roleID |-> "none", avg |-> QInt(0),
            epicBaseScore |-> QInt(0), risks |-> NoFn,
            weightedScore |-> QInt(0), todo |-> {}, wrote |-> FALSE,
            sender |-> "none", name |-> <<>>, fail |-> FALSE, idx |-> 0, removed |-> <<>>,
            list |-> <<>>, iidx |-> 0, ilist |-> <<>>]

RisksOf(e) == {r \in Risks : risks[r].exists /\ risks[r].epic = e}

\* ------------------------------------------------------ scoring.go: maths
\* scoring.RiskCoefficient
RiskCoefficient(weightedScore) ==
    LET rounded == Round(weightedScore)
    IN  IF rounded >= 13 THEN Q(130, 100)
        ELSE IF rounded >= 9 THEN Q(120, 100)
        ELSE IF rounded >= 5 THEN Q(110, 100)
        ELSE Q(105, 100)

\* C14, faulty variant: the plain mean of the scores, without the weights
C14_PlainAvg(rows, roleID) ==
    LET scores == {sc \in rows : sc.role = roleID}
    IN  IF scores = {} THEN QInt(0)
        ELSE Q(SumF([sc \in scores |-> sc.score], scores), Cardinality(scores))

\* Service.CalculateEpicRoleAvg over the rows [user, role, score] of the epic
CalculateEpicRoleAvg(rows, roleID) ==
    LET scores == {sc \in rows : sc.role = roleID}
        weightedSum == SumF([sc \in scores |->
                                sc.score * users[sc.user].weight], scores)
        totalWeight == SumF([sc \in scores |-> users[sc.user].weight], scores)
    IN  IF scores = {} THEN QInt(0)
        ELSE IF totalWeight = 0 THEN QInt(0)
        ELSE Q(weightedSum, totalWeight)

\* Service.CalculateRiskWeightedScore over the rows
\* [user, probability, impact] of the risk
CalculateRiskWeightedScore(rows) ==
    LET weightedSum ==
            SumF([rs \in rows |->
                    (rs.probability * rs.impact) * users[rs.user].weight],
                 rows)
        totalWeight == SumF([rs \in rows |-> users[rs.user].weight], rows)
    IN  IF rows = {} THEN QInt(0)
        ELSE IF totalWeight = 0 THEN QInt(0)
        ELSE Q(weightedSum, totalWeight)

\* TryCompleteEpicScoring, "Apply risk coefficients": finalScore *= coeff
\* for every risk read whose WeightedScore is not nil
RECURSIVE MulCoefficients(_, _, _)
MulCoefficients(finalScore, rs, todo) ==
    IF todo = {} THEN finalScore
    ELSE LET r == CHOOSE x \in todo : TRUE
         IN  MulCoefficients(
                 IF rs[r].weighted_score # NilQ
                 THEN QMul(finalScore, RiskCoefficient(rs[r].weighted_score))
                 ELSE finalScore,
                 rs, todo \ {r})

\* C5, faulty variant: the coefficients are added, finalScore = base * (1 + sum of
\* (coeff - 1)), instead of multiplied
RECURSIVE C5_SumExcess(_, _)
C5_SumExcess(rs, todo) ==
    IF todo = {} THEN QInt(0)
    ELSE LET r == CHOOSE x \in todo : TRUE
             c == RiskCoefficient(rs[r].weighted_score)
         IN  QAdd(IF rs[r].weighted_score # NilQ
                  THEN Q(c.n - c.d, c.d) ELSE QInt(0),
                  C5_SumExcess(rs, todo \ {r}))

C5_AddCoefficients(epicBaseScore, rs) ==
    QMul(epicBaseScore, QAdd(QInt(1), C5_SumExcess(rs, DOMAIN rs)))

ApplyRiskCoefficients(epicBaseScore, rs) ==
    MulCoefficients(epicBaseScore, rs, DOMAIN rs)

\* ------------------------------------------------------------------- Init
\* weights and roles of the registered users (users.weight is 0..100)
UserConfigs ==
    { [u \in Users |-> [exists |-> TRUE, weight |-> 1,
                        role |-> IF u = "u1" THEN "dev" ELSE "qa",
                        roles |-> {IF u = "u1" THEN "dev" ELSE "qa"}]],
      [u \in Users |-> [exists |-> TRUE,
                        weight |-> IF u = "u1" THEN 3 ELSE 1,
                        role |-> "dev", roles |-> {"dev"}]] }

\* the state of a database in which one epic was created (CreateEpic: NEW,
\* no final score) with some risks (CreateRisk: NEW, no weighted score) and
\* nobody has scored yet
\* cfg.BotConfig.Admins as loaded from the configuration file: one entry,
\* the bytes of "admin"
InitAdmins == << <<"a", "d", "m", "i", "n">> >>

InitWith(U, T, R) ==
    /\ users = U
    /\ user_teams = T
    /\ epics = [e \in Epics |-> [exists |-> TRUE, status |-> StatusNew,
                                  final_score |-> Nil]]
    /\ risks = [r \in Risks |-> [exists |-> r \in R, epic |-> "e1",
                                 status |-> StatusNew,
                                 weighted_score |-> NilQ]]
    /\ epic_scores = [e \in Epics |-> {}]
    /\ risk_scores = [r \in Risks |-> {}]
    /\ epic_role_scores = [e \in Epics |-> NoFn]
    /\ sessions = [c \in Chats |-> NoSession]
    /\ btnEpic = {}
    /\ btnRisk = {}
    /\ pc = [p \in Procs |-> "idle"]
    /\ loc = [p \in Procs |-> LocIdle]
    /\ ops = 0
    /\ finalWrites = [e \in Epics |-> 0]
    /\ riskWrites = [r \in Risks |-> 0]
    /\ admins = InitAdmins
    /\ adminsIdeal = InitAdmins
    /\ pickers = NoPickers
    /\ calls = <<>>

Init ==
    \E T \in {{"u1"}, Users}, R \in {{}, {"r1"}} :
        InitWith([u \in Users |->
                     [exists |-> TRUE, weight |-> 1,
                      role |-> IF u = "u1" THEN "dev" ELSE "qa",
                      roles |-> {IF u = "u1" THEN "dev" ELSE "qa"}]],
                 T, R)

\* --------------------------------------------------------------- helpers
Goto(p, label, l) ==
    /\ pc' = [pc EXCEPT ![p] = label]
    /\ loc' = [loc EXCEPT ![p] = l]

Return(p) == Goto(p, "idle", LocIdle)

\* a handler (one update) starts in goroutine p; goroutines have no
\* identity, so the new one takes a fixed free slot
Begin(p) ==
    /\ pc[p] = "idle"
    /\ p = CHOOSE q \in Procs : pc[q] = "idle"
    /\ ops' = ops + 1
    /\ calls' = <<>>

\* TryCompleteEpicScoring returns: the history keeps the outcome of the
\* call and whether it has run a writing statement (of the last two calls)
ReturnTCE(p, out, wrote) ==
    /\ Return(p)
    /\ calls' = (IF Len(calls) < 2 THEN calls ELSE Tail(calls))
                 \o <<[out |-> out, wrote |-> wrote]>>

\* ------------------------------ scoring.go: Service.TryCompleteEpicScoring
\* C2, faulty variant: TryCompleteEpicScoring without the status gate
C2_NoStatusGate(epic) == FALSE

\* the status gate: if epic.Status == domain.StatusScored { return nil }
AlreadyScored(epic) == epic.status = StatusScored

\* epic, err := s.repo.GetEpicByID(ctx, epicID), then the status gate
TCE_GetEpicByID(p) ==
    /\ pc[p] = "tce_get"
    /\ IF AlreadyScored(epics[loc[p].epicID])
       THEN ReturnTCE(p, "gate", loc[p].wrote)
       ELSE Goto(p, "tce_members", loc[p]) /\ UNCHANGED calls
    /\ UNCHANGED <<db, sessions, btnEpic, btnRisk, ops, finalWrites,
                   riskWrites, cfg, pickers>>

\* teamMembers, err := s.repo.CountTeamMembers(ctx, epic.TeamID)
TCE_CountTeamMembers(p) ==
    /\ pc[p] = "tce_members"
    /\ Goto(p, "tce_count",
            [loc[p] EXCEPT !.teamMembers = Cardinality(user_teams)])
    /\ UNCHANGED <<db, sessions, btnEpic, btnRisk, ops, finalWrites,
                   riskWrites, cfg, pickers, calls>>

\* epicScoreCount, err := s.repo.CountEpicScores(ctx, epicID);
\* if epicScoreCount < teamMembers return nil
TCE_CountEpicScores(p) ==
    /\ pc[p] = "tce_count"
    /\ LET epicScoreCount == Cardinality(epic_scores[loc[p].epicID])
       IN  IF epicScoreCount < loc[p].teamMembers
           THEN ReturnTCE(p, "noquorum", loc[p].wrote)
           ELSE /\ Goto(p, "tce_roles",
                        [loc[p] EXCEPT !.count = epicScoreCount])
                /\ UNCHANGED calls
    /\ UNCHANGED <<db, sessions, btnEpic, btnRisk, ops, finalWrites,
                   riskWrites, cfg, pickers>>

\* roleIDs, err := s.repo.GetDistinctRoleIDsForEpicScores(ctx, epicID)
TCE_GetDistinctRoleIDs(p) ==
    /\ pc[p] = "tce_roles"
    /\ LET rows == epic_scores[loc[p].epicID]
           roleIDs == {sc.role : sc \in rows}
       IN  Goto(p, IF roleIDs = {} THEN "tce_risks" ELSE "tce_avg",
                [loc[p] EXCEPT !.roleIDs = roleIDs,
                               !.epicBaseScore = QInt(0)])
    /\ UNCHANGED <<db, sessions, btnEpic, btnRisk, ops, finalWrites,
                   riskWrites, cfg, pickers, calls>>

\* for _, roleID := range roleIDs: avg, err := s.CalculateEpicRoleAvg(...)
\* (the sum does not depend on the order of the roles: one order is taken)
TCE_CalculateEpicRoleAvg(p) ==
    /\ pc[p] = "tce_avg"
    /\ LET roleID == CHOOSE x \in loc[p].roleIDs : TRUE
       IN
         Goto(p, "tce_upsert",
              [loc[p] EXCEPT
                 !.roleID = roleID,
                 !.avg = CalculateEpicRoleAvg(epic_scores[loc[p].epicID],
                                              roleID)])
    /\ UNCHANGED <<db, sessions, btnEpic, btnRisk, ops, finalWrites,
                   riskWrites, cfg, pickers, calls>>

\* s.repo.UpsertEpicRoleScore(ctx, epicID, roleID, avg); epicBaseScore += avg
TCE_UpsertEpicRoleScore(p) ==
    /\ pc[p] = "tce_upsert"
    /\ LET e == loc[p].epicID
           rest == loc[p].roleIDs \ {loc[p].roleID}
       IN  /\ epic_role_scores' =
                 [epic_role_scores EXCEPT
                    ![e] = Upsert(@, loc[p].roleID, loc[p].avg)]
           /\ Goto(p, IF rest = {} THEN "tce_risks" ELSE "tce_avg",
                   [loc[p] EXCEPT
                      !.roleIDs = rest,
                      !.epicBaseScore = QAdd(@, loc[p].avg),
                      !.wrote = TRUE])
    /\ UNCHANGED <<users, user_teams, epics, risks, epic_scores, risk_scores,
                   sessions, btnEpic, btnRisk, ops, finalWrites, riskWrites, cfg, pickers,
                   calls>>

\* C4, faulty variant: TryCompleteEpicScoring that does not wait for the
\* risks
C4_NeverWaiting(rs) == FALSE

\* the risks read by GetRisksByEpicID that make the call wait:
\* if risk.Status != domain.StatusScored return nil
WaitingForRisk(rs) == \E r \in DOMAIN rs : rs[r].status # StatusScored

\* risks, err := s.repo.GetRisksByEpicID(ctx, epicID)
TCE_GetRisksByEpicID(p) ==
    /\ pc[p] = "tce_risks"
    /\ LET rs == [r \in RisksOf(loc[p].epicID) |->
                    [status |-> risks[r].status,
                     weighted_score |-> risks[r].weighted_score]]
       IN  IF WaitingForRisk(rs)
           THEN ReturnTCE(p, "waitrisk", loc[p].wrote)
           ELSE Goto(p, "tce_set", [loc[p] EXCEPT !.risks = rs])
                /\ UNCHANGED calls
    /\ UNCHANGED <<db, sessions, btnEpic, btnRisk, ops, finalWrites,
                   riskWrites, cfg, pickers>>

\* finalScore = math.Round(finalScore);
\* s.repo.SetEpicFinalScore(ctx, epicID, finalScore):
\* UPDATE epics SET final_score = $1, status = 'SCORED' WHERE id = $3
TCE_SetEpicFinalScore(p) ==
    /\ pc[p] = "tce_set"
    /\ LET e == loc[p].epicID
           finalScore ==
               Round(ApplyRiskCoefficients(loc[p].epicBaseScore, loc[p].risks))
       IN  /\ epics' = [epics EXCEPT ![e].status = StatusScored,
                                     ![e].final_score = finalScore]
           /\ finalWrites' = [finalWrites EXCEPT ![e] = Inc(@)]
    /\ ReturnTCE(p, "completed", TRUE)
    /\ UNCHANGED <<users, user_teams, risks, epic_scores, risk_scores,
                   epic_role_scores, sessions, btnEpic, btnRisk, ops,
                   riskWrites, cfg, pickers>>

\* a repository call of TryCompleteEpicScoring fails:
\* if err != nil { return fmt.Errorf("%s: %w", op, err) }
TCE_Labels == {"tce_get", "tce_members", "tce_count", "tce_roles", "tce_avg",
               "tce_upsert", "tce_risks", "tce_set"}

TCE_RepoError(p) ==
    /\ pc[p] \in TCE_Labels
    /\ ReturnTCE(p, "error", loc[p].wrote)
    /\ UNCHANGED <<db, sessions, btnEpic, btnRisk, ops, finalWrites,
                   riskWrites, cfg, pickers>>

TryCompleteEpicScoring(p) ==
    \/ TCE_GetEpicByID(p)
    \/ TCE_CountTeamMembers(p)
    \/ TCE_CountEpicScores(p)
    \/ TCE_GetDistinctRoleIDs(p)
    \/ TCE_CalculateEpicRoleAvg(p)
    \/ TCE_UpsertEpicRoleScore(p)
    \/ TCE_GetRisksByEpicID(p)
    \/ TCE_SetEpicFinalScore(p)

\* ------------------------------ scoring.go: Service.TryCompleteRiskScoring
\* risk := GetRiskByID(riskID); epic := GetEpicByID(risk.EpicID):
\* both read only columns that never change (epic_id, team_id)
TCR_GetRiskByID(p) ==
    /\ pc[p] = "tcr_get"
    /\ Goto(p, "tcr_members",
            [loc[p] EXCEPT !.epicID = risks[loc[p].riskID].epic])
    /\ UNCHANGED <<db, sessions, btnEpic, btnRisk, ops, finalWrites,
                   riskWrites, cfg, pickers, calls>>

\* teamMembers, err := s.repo.CountTeamMembers(ctx, epic.TeamID)
TCR_CountTeamMembers(p) ==
    /\ pc[p] = "tcr_members"
    /\ Goto(p, "tcr_count",
            [loc[p] EXCEPT !.teamMembers = Cardinality(user_teams)])
    /\ UNCHANGED <<db, sessions, btnEpic, btnRisk, ops, finalWrites,
                   riskWrites, cfg, pickers, calls>>

\* riskScoreCount, err := s.repo.CountRiskScores(ctx, riskID);
\* if riskScoreCount < teamMembers return nil
TCR_CountRiskScores(p) ==
    /\ pc[p] = "tcr_count"
    /\ LET riskScoreCount == Cardinality(risk_scores[loc[p].riskID])
       IN  IF riskScoreCount < loc[p].teamMembers
           THEN Return(p)
           ELSE Goto(p, "tcr_calc", [loc[p] EXCEPT !.count = riskScoreCount])
    /\ UNCHANGED <<db, sessions, btnEpic, btnRisk, ops, finalWrites,
                   riskWrites, cfg, pickers, calls>>

\* weightedScore, err := s.CalculateRiskWeightedScore(ctx, riskID)
TCR_CalculateRiskWeightedScore(p) ==
    /\ pc[p] = "tcr_calc"
    /\ Goto(p, "tcr_set",
            [loc[p] EXCEPT !.weightedScore =
                CalculateRiskWeightedScore(risk_scores[loc[p].riskID])])
    /\ UNCHANGED <<db, sessions, btnEpic, btnRisk, ops, finalWrites,
                   riskWrites, cfg, pickers, calls>>

\* C12, faulty variant: the weighted score is stored and the call returns
\* without re-evaluating the epic
C12_SetWithoutCascade(p) ==
    /\ pc[p] = "tcr_set"
    /\ LET r == loc[p].riskID
       IN  /\ risks' = [risks EXCEPT
                          ![r].status = StatusScored,
                          ![r].weighted_score = loc[p].weightedScore]
           /\ riskWrites' = [riskWrites EXCEPT ![r] = Inc(@)]
    /\ Return(p)
    /\ UNCHANGED <<users, user_teams, epics, epic_scores, risk_scores,
                   epic_role_scores, sessions, btnEpic, btnRisk, ops,
                   finalWrites, cfg, pickers, calls>>

\* s.repo.SetRiskWeightedScore(ctx, riskID, weightedScore):
\* UPDATE risks SET weighted_score = $1, status = 'SCORED' WHERE id = $3;
\* then return s.TryCompleteEpicScoring(ctx, risk.EpicID)
TCR_SetRiskWeightedScore(p) ==
    /\ pc[p] = "tcr_set"
    /\ LET r == loc[p].riskID
       IN  /\ risks' = [risks EXCEPT
                          ![r].status = StatusScored,
                          ![r].weighted_score = loc[p].weightedScore]
           /\ riskWrites' = [riskWrites EXCEPT ![r] = Inc(@)]
    /\ Goto(p, "tce_get", loc[p])
    /\ UNCHANGED <<users, user_teams, epics, epic_scores, risk_scores,
                   epic_role_scores, sessions, btnEpic, btnRisk, ops,
                   finalWrites, cfg, pickers, calls>>

\* a repository call of TryCompleteRiskScoring fails:
\* if err != nil { return fmt.Errorf("%s: %w", op, err) }
TCR_Labels == {"tcr_get", "tcr_members", "tcr_count", "tcr_calc", "tcr_set"}

TCR_RepoError(p) ==
    /\ pc[p] \in TCR_Labels
    /\ Return(p)
    /\ UNCHANGED <<db, sessions, btnEpic, btnRisk, ops, finalWrites,
                   riskWrites, cfg, pickers, calls>>

TryCompleteRiskScoring(p) ==
    \/ TCR_GetRiskByID(p)
    \/ TCR_CountTeamMembers(p)
    \/ TCR_CountRiskScores(p)
    \/ TCR_CalculateRiskWeightedScore(p)
    \/ TCR_SetRiskWeightedScore(p)

\* -------------------------------------------------- the session store
\* set(chatID, session): replaces any session of the conversation and
\* stamps the expiry now + TTL
SessionSet(c, sess) ==
    sessions' = [sessions EXCEPT ![c] = [sess EXCEPT !.left = SessionTTL]]
\* clear(chatID)
SessionClear(c) == sessions' = [sessions EXCEPT ![c] = NoSession]
\* C20, faulty variant: get never looks at the expiry
C20_FoundWhileStored(c) == sessions[c] # NoSession
\* get(chatID): found unless there is no entry or its expiry has passed
SessionFound(c) == sessions[c] # NoSession /\ sessions[c].left > 0
\* C21, faulty variant: touch leaves the expiry as it is
C21_NoTouch(c) == UNCHANGED sessions
\* touch(chatID): extends the expiry, step and data stay
SessionTouch(c) == sessions' = [sessions EXCEPT ![c].left = SessionTTL]
\* the clock advances by one tick: the entries stay in the store
Tick ==
    /\ \E c \in Chats : sessions[c].left > 0
    /\ sessions' = [c \in Chats |->
                      IF sessions[c].left > 0
                      THEN [sessions[c] EXCEPT !.left = @ - 1]
                      ELSE sessions[c]]
    /\ UNCHANGED <<db, btnEpic, btnRisk, pc, loc, ops, finalWrites,
                   riskWrites, cfg, pickers, calls>>

\* ------------------------------------------- repositories/scoring.go
\* SELECT COUNT(*) FROM epic_scores WHERE epic_id = $1 AND user_id = $2; > 0
HasUserScoredEpic(e, u) == \E sc \in epic_scores[e] : sc.user = u
\* SELECT COUNT(*) FROM risk_scores WHERE risk_id = $1 AND user_id = $2; > 0
HasUserScoredRisk(r, u) == \E rs \in risk_scores[r] : rs.user = u

\* C13, faulty variant: a plain INSERT, without ON CONFLICT DO UPDATE
C13_InsertEpicScore(rows, userID, roleID, score) ==
    rows \cup {[user |-> userID, role |-> roleID, score |-> score]}

\* CreateEpicScore on the rows of the epic: INSERT INTO epic_scores ...
\* ON CONFLICT (epic_id, user_id) DO UPDATE SET score = $5, role_id = $4
CreateEpicScore(rows, userID, roleID, score) ==
    {sc \in rows : sc.user # userID}
        \cup {[user |-> userID, role |-> roleID, score |-> score]}

\* CreateRiskScore on the rows of the risk: INSERT INTO risk_scores ...
\* ON CONFLICT (risk_id, user_id) DO UPDATE SET probability = $4, impact = $5
CreateRiskScore(rows, userID, probability, impact) ==
    {rs \in rows : rs.user # userID}
        \cup {[user |-> userID, probability |-> probability,
                impact |-> impact]}

\* ------------------------------------------- callbacks.go: the score menus
\* what GetUnscoredRisksByUser returns: the SCORING risks of the epic that
\* the user has not scored
GetUnscoredRisksByUser(u, e) ==
    {r \in RisksOf(e) : /\ risks[r].status = StatusScoring
                        /\ ~HasUserScoredRisk(r, u)}

\* what GetUnscoredEpicsByUser returns: the SCORING epics with effort or a
\* SCORING risk not yet scored by the user
GetUnscoredEpicsByUser(u) ==
    {e \in Epics : /\ epics[e].status = StatusScoring
                   /\ \/ ~HasUserScoredEpic(e, u)
                      \/ GetUnscoredRisksByUser(u, e) # {}}

\* /score (handleScoreMenu: the sender is in a team) and then the click on
\* "team_<id>": showTeamEpics sends an "epic_<id>" button per unscored epic
ShowTeamEpics(u) ==
    /\ u \in user_teams
    /\ GetUnscoredEpicsByUser(u) # {}
    /\ btnEpic' = btnEpic \cup GetUnscoredEpicsByUser(u)
    /\ UNCHANGED <<db, sessions, btnRisk, pc, loc, ops, finalWrites,
                   riskWrites, cfg, pickers, calls>>

\* a click of user u on "epic_<e>" in chat c: showEpicScoreOptions
ShowEpicScoreOptions(u, e, c) ==
    /\ e \in btnEpic
    /\ LET effortScored == HasUserScoredEpic(e, u)
           unscoredRisks == GetUnscoredRisksByUser(u, e)
       IN  IF effortScored
           THEN \* showEpicRisks: a "risk_<id>" button per unscored risk
                /\ unscoredRisks # {}
                /\ btnRisk' = btnRisk \cup unscoredRisks
                /\ UNCHANGED sessions
           ELSE \* prompt for the effort as a text reply
                /\ SessionSet(c, [NewSession EXCEPT
                                     !.step = StepScoreEpicEffort,
                                     !.epicID = e, !.username = u])
                /\ UNCHANGED btnRisk
    /\ UNCHANGED <<db, btnEpic, pc, loc, ops, finalWrites, riskWrites, cfg, pickers, calls>>

\* -------------------- handlers.go: handleSessionInput, StepScoreEpicEffort
\* the replies the model sends: two efforts and a number out of range
EffortTexts == {5, 10, 501}

\* sess, ok := sessions.get(chatID); sessions.touch(chatID);
\* score := Atoi(text); if score < 0 || score > 500 { reply; return }
HSI_Get(p, c, text) ==
    /\ Begin(p)
    /\ SessionFound(c)
    /\ sessions[c].step = StepScoreEpicEffort
    /\ SessionTouch(c)
    /\ IF text < 0 \/ text > 500
       THEN UNCHANGED <<pc, loc>>
       ELSE Goto(p, "hsi_clear",
                 [loc[p] EXCEPT !.chatID = c, !.sess = sessions[c],
                                !.score = text,
                                !.epicID = sessions[c].epicID])
    /\ UNCHANGED <<db, btnEpic, btnRisk, finalWrites, riskWrites, cfg, pickers>>

\* epicBot.sessions.clear(chatID)
\* the same handler with the sender of the reply (update.Message.From) kept
\* beside the state of the handler: the code reads Message.Chat.ID and
\* Message.Text and never Message.From
HSI_GetFrom(p, c, from, text) ==
    /\ Begin(p)
    /\ SessionFound(c)
    /\ sessions[c].step = StepScoreEpicEffort
    /\ SessionTouch(c)
    /\ IF text < 0 \/ text > 500
       THEN UNCHANGED <<pc, loc>>
       ELSE Goto(p, "hsi_clear",
                 [loc[p] EXCEPT !.chatID = c, !.sess = sessions[c],
                                !.score = text, !.sender = from,
                                !.epicID = sessions[c].epicID])
    /\ UNCHANGED <<db, btnEpic, btnRisk, finalWrites, riskWrites, cfg, pickers>>

HSI_Clear(p) ==
    /\ pc[p] = "hsi_clear"
    /\ SessionClear(loc[p].chatID)
    /\ Goto(p, "hsi_create", loc[p])
    /\ UNCHANGED <<db, btnEpic, btnRisk, ops, finalWrites, riskWrites, cfg, pickers, calls>>

\* C27, faulty variant: the effort is stored and the handler returns without
\* the call of TryCompleteEpicScoring
C27_StoreOnly(p) ==
    /\ pc[p] = "hsi_create"
    /\ LET u == loc[p].sess.username
           e == loc[p].epicID
       IN  epic_scores' =
               [epic_scores EXCEPT
                  ![e] = CreateEpicScore(@, u, users[u].role, loc[p].score)]
    /\ Return(p)
    /\ UNCHANGED <<users, user_teams, epics, risks, risk_scores,
                   epic_role_scores, sessions, btnEpic, btnRisk, ops,
                   finalWrites, riskWrites, cfg, pickers, calls>>

\* user := FindUserByTelegramID(sess.Data["username"]);
\* role := GetRoleByUserID(user.ID);
\* repo.CreateEpicScore(epicID, user.ID, role.ID, score):
\* INSERT ... ON CONFLICT (epic_id, user_id) DO UPDATE SET score, role_id;
\* then scoring.TryCompleteEpicScoring(ctx, epicID)
HSI_CreateEpicScore(p) ==
    /\ pc[p] = "hsi_create"
    /\ LET u == loc[p].sess.username
           e == loc[p].epicID
       IN  epic_scores' =
               [epic_scores EXCEPT
                  ![e] = CreateEpicScore(@, u, users[u].role, loc[p].score)]
    /\ Goto(p, "tce_get", loc[p])
    /\ UNCHANGED <<users, user_teams, epics, risks, risk_scores,
                   epic_role_scores, sessions, btnEpic, btnRisk, ops,
                   finalWrites, riskWrites, cfg, pickers, calls>>

\* ------------------------------------------ callbacks.go: handleRiskImpact
\* the probability/impact pairs the model clicks (each is in 1..4)
RiskInputs == {<<1, 3>>, <<4, 3>>}

\* a click of user u on "riskimp_<r>_<prob>_<impact>":
\* repo.CreateRiskScore(riskID, user.ID, prob, impact):
\* INSERT ... ON CONFLICT (risk_id, user_id) DO UPDATE SET probability, impact;
\* then scoring.TryCompleteRiskScoring(ctx, riskID)
HRI_CreateRiskScore(p, u, r, in) ==
    /\ Begin(p)
    /\ r \in btnRisk
    /\ risk_scores' =
           [risk_scores EXCEPT ![r] = CreateRiskScore(@, u, in[1], in[2])]
    /\ Goto(p, "tcr_get", [loc[p] EXCEPT !.riskID = r])
    /\ UNCHANGED <<users, user_teams, epics, risks, epic_scores,
                   epic_role_scores, sessions, btnEpic, btnRisk, finalWrites,
                   riskWrites, cfg, pickers>>

\* ---------------------------------------------- handlers.go: execStartScore
\* a click of an administrator on "adm_epic_startscore_<e>" (the /startscore
\* picker lists the NEW epics, and every epic starts NEW):
\* epic := GetEpicByID(epicID); if epic.Status != StatusNew { reply; return }
ESS_GetEpicByID(p, e) ==
    /\ Begin(p)
    /\ IF epics[e].status # StatusNew
       THEN UNCHANGED <<pc, loc>>
       ELSE Goto(p, "ess_epic", [loc[p] EXCEPT !.epicID = e])
    /\ UNCHANGED <<db, sessions, btnEpic, btnRisk, finalWrites, riskWrites, cfg, pickers>>

\* repo.UpdateEpicStatus(epic.ID, StatusScoring):
\* UPDATE epics SET status = $1 WHERE id = $2
ESS_UpdateEpicStatus(p) ==
    /\ pc[p] = "ess_epic"
    /\ epics' = [epics EXCEPT ![loc[p].epicID].status = StatusScoring]
    /\ Goto(p, "ess_risks", loc[p])
    /\ UNCHANGED <<users, user_teams, risks, epic_scores, risk_scores,
                   epic_role_scores, sessions, btnEpic, btnRisk, ops,
                   finalWrites, riskWrites, cfg, pickers, calls>>

\* risks, err := repo.GetRisksByEpicID(epic.ID)
ESS_GetRisksByEpicID(p) ==
    /\ pc[p] = "ess_risks"
    /\ LET todo == RisksOf(loc[p].epicID)
       IN  IF todo = {} THEN Return(p)
           ELSE Goto(p, "ess_risk", [loc[p] EXCEPT !.todo = todo])
    /\ UNCHANGED <<db, sessions, btnEpic, btnRisk, ops, finalWrites,
                   riskWrites, cfg, pickers, calls>>

\* for _, risk := range risks: repo.UpdateRiskStatus(risk.ID, StatusScoring):
\* UPDATE risks SET status = $1 WHERE id = $2
ESS_UpdateRiskStatus(p) ==
    /\ pc[p] = "ess_risk"
    /\ LET r == CHOOSE x \in loc[p].todo : TRUE
           rest == loc[p].todo \ {r}
       IN  /\ risks' = [risks EXCEPT ![r].status = StatusScoring]
           /\ IF rest = {} THEN Return(p)
              ELSE Goto(p, "ess_risk", [loc[p] EXCEPT !.todo = rest])
    /\ UNCHANGED <<users, user_teams, epics, epic_scores, risk_scores,
                   epic_role_scores, sessions, btnEpic, btnRisk, ops,
                   finalWrites, riskWrites, cfg, pickers, calls>>

execStartScore(p) ==
    \/ ESS_UpdateEpicStatus(p)
    \/ ESS_GetRisksByEpicID(p)
    \/ ESS_UpdateRiskStatus(p)

\* ------------------------------------------------- administrator commands
\* /addrisk, the reply with the description: repo.CreateRisk(text, epicID)
CreateRisk(r, e) ==
    /\ ~risks[r].exists
    /\ r = CHOOSE x \in Risks : ~risks[x].exists
    /\ risks' = [risks EXCEPT ![r] = [exists |-> TRUE, epic |-> e,
                                      status |-> StatusNew,
                                      weighted_score |-> NilQ]]
    /\ ops' = ops + 1
    /\ calls' = <<>>
    /\ UNCHANGED <<users, user_teams, epics, epic_scores, risk_scores,
                   epic_role_scores, sessions, btnEpic, btnRisk, pc, loc,
                   finalWrites, riskWrites, cfg, pickers>>

\* /assignteam, the click on the team: repo.AssignUserTeam(userID, teamID)
\* unless the user already is in the team
AssignUserTeam(u) ==
    /\ u \notin user_teams
    /\ user_teams' = user_teams \cup {u}
    /\ ops' = ops + 1
    /\ calls' = <<>>
    /\ UNCHANGED <<users, epics, risks, epic_scores, risk_scores,
                   epic_role_scores, sessions, btnEpic, btnRisk, pc, loc,
                   finalWrites, riskWrites, cfg, pickers>>

\* -------------------------------------------- a direct call of the service
\* scoring.Service.TryCompleteEpicScoring(ctx, epicID) called by itself
CallTryCompleteEpicScoring(p, e) ==
    /\ pc[p] = "idle"
    /\ p = CHOOSE q \in Procs : pc[q] = "idle"
    /\ ops' = ops + 1
    /\ Goto(p, "tce_get", [loc[p] EXCEPT !.epicID = e])
    /\ UNCHANGED <<db, sessions, btnEpic, btnRisk, finalWrites, riskWrites, cfg, pickers,
                   calls>>

\* ------------------------------------------------ the strings
\* the string literals of the handlers, as their bytes (all are ASCII)
Chars ==
    ("adm_user_" :> <<"a", "d", "m", "_", "u", "s", "e", "r", "_">>)
    @@ ("adm_role_" :> <<"a", "d", "m", "_", "r", "o", "l", "e", "_">>)
    @@ ("adm_team_" :> <<"a", "d", "m", "_", "t", "e", "a", "m", "_">>)
    @@ ("adm_epic_" :> <<"a", "d", "m", "_", "e", "p", "i", "c", "_">>)
    @@ ("adm_risk_" :> <<"a", "d", "m", "_", "r", "i", "s", "k", "_">>)
    @@ ("adm_confirm_" :> <<"a", "d", "m", "_", "c", "o", "n", "f", "i", "r", "m", "_">>)
    @@ ("adm_deny_" :> <<"a", "d", "m", "_", "d", "e", "n", "y", "_">>)
    @@ ("adm_cancel" :> <<"a", "d", "m", "_", "c", "a", "n", "c", "e", "l">>)
    @@ ("adm_deny_deleteuser" :> <<"a", "d", "m", "_", "d", "e", "n", "y", "_", "d", "e", "l",
            "e", "t", "e", "u", "s", "e", "r">>)
    @@ ("adm_deny_deleteepic" :> <<"a", "d", "m", "_", "d", "e", "n", "y", "_", "d", "e", "l",
            "e", "t", "e", "e", "p", "i", "c">>)
    @@ ("adm_deny_deleterisk" :> <<"a", "d", "m", "_", "d", "e", "n", "y", "_", "d", "e", "l",
            "e", "t", "e", "r", "i", "s", "k">>)
    @@ ("admin" :> <<"a", "d", "m", "i", "n">>)
    @@ ("super" :> <<"s", "u", "p", "e", "r">>)
    @@ ("user" :> <<"u", "s", "e", "r">>)
    @@ ("assignrole" :> <<"a", "s", "s", "i", "g", "n", "r", "o", "l", "e">>)
    @@ ("unassignrole" :> <<"u", "n", "a", "s", "s", "i", "g", "n", "r", "o", "l", "e">>)
    @@ ("assignteam" :> <<"a", "s", "s", "i", "g", "n", "t", "e", "a", "m">>)
    @@ ("removefromteam" :> <<"r", "e", "m", "o", "v", "e", "f", "r", "o", "m", "t", "e",
            "a", "m">>)
    @@ ("deleteuser" :> <<"d", "e", "l", "e", "t", "e", "u", "s", "e", "r">>)
    @@ ("renameuser" :> <<"r", "e", "n", "a", "m", "e", "u", "s", "e", "r">>)
    @@ ("changerate" :> <<"c", "h", "a", "n", "g", "e", "r", "a", "t", "e">>)
    @@ ("addepic" :> <<"a", "d", "d", "e", "p", "i", "c">>)
    @@ ("list" :> <<"l", "i", "s", "t">>)
    @@ ("addrisk" :> <<"a", "d", "d", "r", "i", "s", "k">>)
    @@ ("startscore" :> <<"s", "t", "a", "r", "t", "s", "c", "o", "r", "e">>)
    @@ ("results" :> <<"r", "e", "s", "u", "l", "t", "s">>)
    @@ ("epicstatus" :> <<"e", "p", "i", "c", "s", "t", "a", "t", "u", "s">>)
    @@ ("deleteepic" :> <<"d", "e", "l", "e", "t", "e", "e", "p", "i", "c">>)
    @@ ("deleterisk" :> <<"d", "e", "l", "e", "t", "e", "r", "i", "s", "k">>)
    @@ ("_" :> <<"_">>)
    @@ ("start_score" :> <<"s", "t", "a", "r", "t", "_", "s", "c", "o", "r", "e">>)
    @@ ("X" :> <<"X">>)
    @@ ("" :> <<>>)
    @@ ("@" :> <<"@">>)
    @@ ("@u2" :> <<"@", "u", "2">>)
    @@ ("@u1" :> <<"@", "u", "1">>)
    @@ ("u1" :> <<"u", "1">>)
    @@ ("u2" :> <<"u", "2">>)
    @@ ("ann" :> <<"a", "n", "n">>)
    @@ ("-" :> <<"-">>)
    @@ ("+7" :> <<"+", "7">>)
    @@ ("7" :> <<"7">>)
    @@ ("0" :> <<"0">>)
    @@ ("100" :> <<"1", "0", "0">>)
    @@ ("101" :> <<"1", "0", "1">>)
    @@ ("-1" :> <<"-", "1">>)
    @@ ("1" :> <<"1">>)
    @@ ("2" :> <<"2">>)
    @@ ("3" :> <<"3">>)
    @@ ("4" :> <<"4">>)
    @@ ("5" :> <<"5">>)
    @@ ("riskimp_" :> <<"r", "i", "s", "k", "i", "m", "p", "_">>)
    @@ ("score_epic_" :> <<"s", "c", "o", "r", "e", "_", "e", "p", "i", "c", "_">>)
    @@ ("501" :> <<"5", "0", "1">>)

Str(s) == Chars[s]

\* uuid.UUID.String() of the rows of the database: 36 bytes, 8-4-4-4-12
UUIDs ==
    ("u1" :> <<"0", "b", "0", "e", "7", "d", "1", "a", "-", "1", "1", "1",
            "1", "-", "4", "a", "6", "b", "-", "8", "c", "3", "d", "-", "9",
            "f", "0", "a", "1", "b", "2", "c", "3", "d", "4", "1">>)
    @@ ("u2" :> <<"0", "b", "0", "e", "7", "d", "1", "a", "-", "2", "2", "2",
            "2", "-", "4", "a", "6", "b", "-", "8", "c", "3", "d", "-", "9",
            "f", "0", "a", "1", "b", "2", "c", "3", "d", "4", "2">>)
    @@ ("dev" :> <<"7", "c", "9", "e", "6", "6", "7", "9", "-", "7", "4", "2",
            "5", "-", "4", "0", "d", "e", "-", "9", "4", "4", "b", "-", "e",
            "0", "7", "f", "c", "1", "f", "9", "0", "a", "e", "7">>)
    @@ ("qa" :> <<"7", "c", "9", "e", "6", "6", "7", "9", "-", "7", "4", "2",
            "5", "-", "4", "0", "d", "e", "-", "9", "4", "4", "b", "-", "e",
            "0", "7", "f", "c", "1", "f", "9", "0", "a", "e", "8">>)
    @@ ("t1" :> <<"1", "6", "f", "d", "2", "7", "0", "6", "-", "8", "b", "a",
            "f", "-", "4", "3", "3", "b", "-", "8", "2", "e", "b", "-", "8",
            "c", "7", "f", "a", "d", "a", "8", "4", "7", "d", "a">>)
    @@ ("e1" :> <<"3", "f", "a", "8", "5", "f", "6", "4", "-", "5", "7", "1",
            "7", "-", "4", "5", "6", "2", "-", "b", "3", "f", "c", "-", "2",
            "c", "9", "6", "3", "f", "6", "6", "a", "f", "a", "6">>)
    @@ ("r1" :> <<"6", "b", "a", "7", "b", "8", "1", "0", "-", "9", "d", "a",
            "d", "-", "1", "1", "d", "1", "-", "8", "0", "b", "4", "-", "0",
            "0", "c", "0", "4", "f", "d", "4", "3", "0", "c", "8">>)
    @@ ("r2" :> <<"6", "b", "a", "7", "b", "8", "1", "1", "-", "9", "d", "a",
            "d", "-", "1", "1", "d", "1", "-", "8", "0", "b", "4", "-", "0",
            "0", "c", "0", "4", "f", "d", "4", "3", "0", "c", "8">>)


\* ------------------------------------- admin_callbacks.go: the token codec
\* strings.HasPrefix, strings.TrimPrefix
HasPrefix(s, prefix) ==
    Len(s) >= Len(prefix) /\ SubSeq(s, 1, Len(prefix)) = prefix
TrimPrefix(s, prefix) ==
    IF HasPrefix(s, prefix) THEN SubSeq(s, Len(prefix) + 1, Len(s)) ELSE s

\* s[lo:hi], for 0 <= lo <= hi <= len(s): the length checks of the handlers
\* keep the bounds in range
Slice(s, lo, hi) == SubSeq(s, lo + 1, hi)

\* fmt.Sprintf("adm_<domain>_%s_%s", action, id) and
\* fmt.Sprintf("adm_risk_%s_%s_%s", action, epicID, riskID)
Sprintf2(prefix, action, id) == Str(prefix) \o Str(action) \o Str("_") \o id
Sprintf3(prefix, action, id1, id2) ==
    Str(prefix) \o Str(action) \o Str("_") \o id1 \o Str("_") \o id2

\* idStr := rest[len(rest)-36:]
LastID(rest) == Slice(rest, Len(rest) - 36, Len(rest))

\* C17, faulty variant: the action is what stands before the first underscore
C17_UpToUnderscore(rest) ==
    LET i == CHOOSE k \in 1..(Len(rest) + 1) :
                 /\ k = Len(rest) + 1 \/ rest[k] = "_"
                 /\ \A j \in 1..(k - 1) : rest[j] # "_"
    IN  SubSeq(rest, 1, i - 1)

\* action := rest[:len(rest)-37]
ActionOf(rest) == Slice(rest, 0, Len(rest) - 37)

\* uuid.Parse of a string of 36 bytes: hyphens at 8, 13, 18 and 23, hex
\* digits of either case elsewhere; the value prints in lower case
HexDigits == {"0", "1", "2", "3", "4", "5", "6", "7", "8", "9",
              "a", "b", "c", "d", "e", "f", "A", "B", "C", "D", "E", "F"}
ParseOK(s) ==
    /\ Len(s) = 36
    /\ \A i \in 1..36 : IF i \in {9, 14, 19, 24} THEN s[i] = "-"
                        ELSE s[i] \in HexDigits
ToLower(ch) ==
    CASE ch = "A" -> "a" [] ch = "B" -> "b" [] ch = "C" -> "c"
      [] ch = "D" -> "d" [] ch = "E" -> "e" [] ch = "F" -> "f"
      [] OTHER -> ch
Parse(s) == [i \in 1..Len(s) |-> ToLower(s[i])]

\* the row with this id, "none" when there is none
RowByID(S, s) ==
    IF \E x \in S : UUIDs[x] = Parse(s)
    THEN CHOOSE x \in S : UUIDs[x] = Parse(s)
    ELSE "none"

\* the one team of the model, and the rows that exist
Teams == {"t1"}
GetAllUsers == {u \in Users : users[u].exists}
GetAllEpics == {e \in Epics : epics[e].exists}
GetUserByID(s) == RowByID(GetAllUsers, s)
GetRoleByID(s) == RowByID(Roles, s)
GetTeamByID(s) == RowByID(Teams, s)
GetEpicByID(s) == RowByID(GetAllEpics, s)
GetRiskByID(s) == RowByID({r \in Risks : risks[r].exists}, s)

\* ------------------------------------------------------------- auth.go
\* cfg.BotConfig.Admins and SuperAdmins, and the senders of the updates
Admins == {"admin"}
SuperAdmins == {"super"}
Senders == {"super", "admin", "user"}
isAdmin(sender) ==
    \/ \E i \in DOMAIN admins : admins[i] = Str(sender)
    \/ sender \in SuperAdmins
isSuperAdmin(sender) == sender \in SuperAdmins

\* ------------------------------------------------ handlers.go: the pickers
\* sendReply(text) and sendWithKeyboard(text, kb) are the last call of the
\* handler
Reply(p, l, text) == Goto(p, "reply", [l EXCEPT !.reply = text])
SendKb(p, l, rows) == Goto(p, "send_kb", [l EXCEPT !.rows = rows])

sendReply(p) ==
    /\ pc[p] = "reply"
    /\ Return(p)
    /\ UNCHANGED <<db, sessions, btnEpic, btnRisk, ops, finalWrites,
                   riskWrites, cfg, pickers, calls>>

sendWithKeyboard(p) ==
    /\ pc[p] = "send_kb"
    /\ Return(p)
    /\ UNCHANGED <<db, sessions, btnEpic, btnRisk, ops, finalWrites,
                   riskWrites, cfg, pickers, calls>>

\* sess, _ := sessions.get(chatID); if sess == nil { sess = &Session{} };
\* sess.Data["pendingUserID"] = userID; sessions.set(chatID, sess)
StashPendingUser(c, u) ==
    SessionSet(c, [(IF SessionFound(c) THEN sessions[c] ELSE NewSession)
                      EXCEPT !.pendingUserID = u])

showUserPicker(p, l, action) ==
    /\ IF GetAllUsers = {} THEN Reply(p, l, "not_found")
       ELSE SendKb(p, l, {Sprintf2("adm_user_", action, UUIDs[u]) :
                             u \in GetAllUsers} \cup {Str("adm_cancel")})

showTeamPicker(p, l, action) ==
    SendKb(p, l, {Sprintf2("adm_team_", action, UUIDs[t]) : t \in Teams}
                    \cup {Str("adm_cancel")})

\* statusFilter "" lists every epic
showEpicPicker(p, l, action, statusFilter) ==
    LET es == {e \in GetAllEpics :
                  statusFilter = "" \/ epics[e].status = statusFilter}
    IN  IF es = {} THEN Reply(p, l, "not_found")
        ELSE SendKb(p, l, {Sprintf2("adm_epic_", action, UUIDs[e]) :
                              e \in es} \cup {Str("adm_cancel")})

showRolePicker(p, c, l, action, u) ==
    /\ StashPendingUser(c, u)
    /\ SendKb(p, l, {Sprintf2("adm_role_", action, UUIDs[r]) : r \in Roles}
                       \cup {Str("adm_cancel")})

\* role, err := repo.GetRoleByUserID(userID)
showUserRolePicker(p, c, l, action, u) ==
    IF users[u].role = "none"
    THEN Reply(p, l, "not_found") /\ UNCHANGED sessions
    ELSE /\ StashPendingUser(c, u)
         /\ SendKb(p, l, {Sprintf2("adm_role_", action, UUIDs[users[u].role]),
                          Str("adm_cancel")})

showTeamPickerForUser(p, c, l, action, u) ==
    /\ StashPendingUser(c, u)
    /\ SendKb(p, l, {Sprintf2("adm_team_", action, UUIDs[t]) : t \in Teams}
                       \cup {Str("adm_cancel")})

\* teams, err := repo.GetTeamsByUserTelegramID(user.TelegramID)
showUserTeamPicker(p, c, l, action, u) ==
    LET teams == IF u \in user_teams THEN Teams ELSE {}
    IN  IF teams = {}
        THEN Reply(p, l, "not_found") /\ UNCHANGED sessions
        ELSE /\ StashPendingUser(c, u)
             /\ SendKb(p, l, {Sprintf2("adm_team_", action, UUIDs[t]) :
                                 t \in teams} \cup {Str("adm_cancel")})

showRiskPicker(p, l, action, e) ==
    IF RisksOf(e) = {} THEN Reply(p, l, "not_found")
    ELSE SendKb(p, l, {Sprintf3("adm_risk_", action, UUIDs[e], UUIDs[r]) :
                          r \in RisksOf(e)} \cup {Str("adm_cancel")})

\* ------------------------------------------ handlers.go: commandHandler
\* the commands that open a picker, and who may send them
AdminCommands == {"assignrole", "addepic", "addrisk", "startscore", "list"}
SuperAdminCommands == {"assignteam", "unassignrole", "removefromteam",
                       "deleteepic", "deleterisk", "deleteuser",
                       "renameuser", "changerate"}
OpenCommands == {"results", "epicstatus"}
Commands == AdminCommands \cup SuperAdminCommands \cup OpenCommands

UserPickerCommands == {"assignrole", "assignteam", "unassignrole",
                       "removefromteam", "deleteuser", "renameuser",
                       "changerate"}
TeamPickerCommands == {"addepic", "list"}

\* sessions.clear(chatID); switch commandText(msg) { ... }
commandHandler(p, c, sender, cmd) ==
    /\ Begin(p)
    /\ SessionClear(c)
    /\ LET l == [LocIdle EXCEPT !.chatID = c]
       IN  IF \/ cmd \in AdminCommands /\ ~isAdmin(sender)
              \/ cmd \in SuperAdminCommands /\ ~isSuperAdmin(sender)
           THEN Reply(p, l, "denied")
           ELSE IF cmd \in UserPickerCommands THEN showUserPicker(p, l, cmd)
           ELSE IF cmd \in TeamPickerCommands THEN showTeamPicker(p, l, cmd)
           ELSE showEpicPicker(p, l, cmd,
                               IF cmd = "startscore" THEN StatusNew ELSE "")
    /\ UNCHANGED <<db, btnEpic, btnRisk, finalWrites, riskWrites, cfg, pickers>>

\* ----------------------------------------- admin_callbacks.go: handlers
\* C19, faulty variant: the key stays in the session
C19_KeepPending(sess) == sess

\* delete(sess.Data, "pendingUserID")
DeletePending(sess) == [sess EXCEPT !.pendingUserID = "none"]

\* the sender may not use the button: the token is not looked at
Denied(c) == [LocIdle EXCEPT !.chatID = c]

\* data = "adm_user_<action>_<userID>"
handleAdmUserSelected(p, c, sender, data) ==
    LET l0 == [LocIdle EXCEPT !.chatID = c, !.data = data]
        rest == TrimPrefix(data, Str("adm_user_"))
        userIDStr == LastID(rest)
        action == ActionOf(rest)
        l == [l0 EXCEPT !.action = action, !.idStr = userIDStr]
        u == GetUserByID(userIDStr)
    IN  IF ~isAdmin(sender)
        THEN Reply(p, Denied(c), "denied") /\ UNCHANGED sessions
        ELSE IF Len(rest) < 38
        THEN Reply(p, l0, "malformed") /\ UNCHANGED sessions
        ELSE IF ~ParseOK(userIDStr)
        THEN Reply(p, l, "parse_error") /\ UNCHANGED sessions
        ELSE IF u = "none"
        THEN Reply(p, l, "not_found") /\ UNCHANGED sessions
        ELSE IF action = Str("assignrole")
        THEN showRolePicker(p, c, l, "assignrole", u)
        ELSE IF action = Str("unassignrole")
        THEN showUserRolePicker(p, c, l, "unassignrole", u)
        ELSE IF action = Str("assignteam")
        THEN showTeamPickerForUser(p, c, l, "assignteam", u)
        ELSE IF action = Str("removefromteam")
        THEN showUserTeamPicker(p, c, l, "removefromteam", u)
        ELSE IF action = Str("deleteuser")
        THEN /\ SendKb(p, l, {Sprintf2("adm_confirm_", "deleteuser", UUIDs[u]),
                             Str("adm_deny_deleteuser")})
             /\ UNCHANGED sessions
        ELSE IF action = Str("renameuser")
        THEN /\ SessionSet(c, [NewSession EXCEPT
                                  !.step = StepRenameUserFirstName,
                                  !.pendingUserID = u])
             /\ Reply(p, l, "prompt")
        ELSE IF action = Str("changerate")
        THEN /\ SessionSet(c, [NewSession EXCEPT
                                  !.step = StepChangeRateWeight,
                                  !.pendingUserID = u])
             /\ Reply(p, l, "prompt")
        ELSE Reply(p, l, "unknown_action") /\ UNCHANGED sessions

\* data = "adm_role_<action>_<roleID>": up to the lookups
handleAdmRoleSelected(p, c, sender, data) ==
    LET l0 == [LocIdle EXCEPT !.chatID = c, !.data = data]
        rest == TrimPrefix(data, Str("adm_role_"))
        roleIDStr == LastID(rest)
        action == ActionOf(rest)
        l == [l0 EXCEPT !.action = action, !.idStr = roleIDStr]
        u == sessions[c].pendingUserID
        role == GetRoleByID(roleIDStr)
    IN  /\ UNCHANGED sessions
        /\ IF ~isAdmin(sender) THEN Reply(p, Denied(c), "denied")
           ELSE IF Len(rest) < 38 THEN Reply(p, l0, "malformed")
           ELSE IF ~SessionFound(c) THEN Reply(p, l, "expired")
           ELSE IF u = "none" THEN Reply(p, l, "expired")
           ELSE IF ~ParseOK(roleIDStr) THEN Reply(p, l, "parse_error")
           ELSE IF ~users[u].exists THEN Reply(p, l, "not_found")
           ELSE IF role = "none" THEN Reply(p, l, "not_found")
           ELSE Goto(p, "har_set", [l EXCEPT !.sess = sessions[c],
                                             !.userID = u, !.roleID = role])

\* delete(sess.Data, "pendingUserID"); sessions.set(chatID, sess)
HAR_Set(p) ==
    /\ pc[p] = "har_set"
    /\ SessionSet(loc[p].chatID, DeletePending(loc[p].sess))
    /\ Goto(p, "har_apply", loc[p])
    /\ UNCHANGED <<db, btnEpic, btnRisk, ops, finalWrites, riskWrites, cfg, pickers, calls>>

\* INSERT INTO user_roles (user_id, role_id) ... ON CONFLICT DO NOTHING;
\* GetRoleByUserID keeps returning the role it returned before
AssignUserRole(u, r) ==
    users' = [users EXCEPT ![u].roles = @ \cup {r},
                           ![u].role = IF @ = "none" THEN r ELSE @]

\* DELETE FROM user_roles WHERE user_id = $1 AND role_id = $2
RemoveUserRole(u, r) ==
    LET left == users[u].roles \ {r}
    IN  users' = [users EXCEPT
                    ![u].roles = left,
                    ![u].role = IF @ # r THEN @
                                ELSE IF left = {} THEN "none"
                                ELSE CHOOSE x \in left : TRUE]

\* switch action { case "assignrole": ... case "unassignrole": ... }
HAR_Apply(p) ==
    /\ pc[p] = "har_apply"
    /\ IF loc[p].action = Str("assignrole")
       THEN /\ AssignUserRole(loc[p].userID, loc[p].roleID)
            /\ Reply(p, loc[p], "done")
       ELSE IF loc[p].action = Str("unassignrole")
       THEN /\ RemoveUserRole(loc[p].userID, loc[p].roleID)
            /\ Reply(p, loc[p], "done")
       ELSE /\ Reply(p, loc[p], "unknown_action")
            /\ UNCHANGED users
    /\ UNCHANGED <<user_teams, epics, risks, epic_scores, risk_scores,
                   epic_role_scores, sessions, btnEpic, btnRisk, ops,
                   finalWrites, riskWrites, cfg, pickers, calls>>

\* data = "adm_team_<action>_<teamID>": up to the lookups
handleAdmTeamSelected(p, c, sender, data) ==
    LET l0 == [LocIdle EXCEPT !.chatID = c, !.data = data]
        rest == TrimPrefix(data, Str("adm_team_"))
        lastID == LastID(rest)
        action == ActionOf(rest)
        l == [l0 EXCEPT !.action = action, !.idStr = lastID]
        u == sessions[c].pendingUserID
        team == GetTeamByID(lastID)
    IN  IF ~isAdmin(sender)
        THEN Reply(p, Denied(c), "denied") /\ UNCHANGED sessions
        ELSE IF Len(rest) < 37
        THEN Reply(p, l0, "malformed") /\ UNCHANGED sessions
        ELSE IF action = Str("addepic")
        THEN IF ~ParseOK(lastID)
             THEN Reply(p, l, "parse_error") /\ UNCHANGED sessions
             ELSE /\ SessionSet(c, [NewSession EXCEPT
                                       !.step = StepAddEpicNumber,
                                       !.teamID = team])
                  /\ Reply(p, l, "prompt")
        ELSE IF action \in {Str("assignteam"), Str("removefromteam")}
        THEN /\ UNCHANGED sessions
             /\ IF ~SessionFound(c) THEN Reply(p, l, "expired")
                ELSE IF u = "none" THEN Reply(p, l, "expired")
                ELSE IF ~ParseOK(lastID) THEN Reply(p, l, "parse_error")
                ELSE IF ~users[u].exists THEN Reply(p, l, "not_found")
                ELSE IF team = "none" THEN Reply(p, l, "not_found")
                ELSE Goto(p, "hat_set", [l EXCEPT !.sess = sessions[c],
                                                  !.userID = u,
                                                  !.teamID = team])
        ELSE IF action = Str("list")
        THEN /\ UNCHANGED sessions
             /\ IF ~ParseOK(lastID) THEN Reply(p, l, "parse_error")
                ELSE Reply(p, l, "report")
        ELSE Reply(p, l, "unknown_action") /\ UNCHANGED sessions

\* delete(sess.Data, "pendingUserID"); sessions.set(chatID, sess)
HAT_Set(p) ==
    /\ pc[p] = "hat_set"
    /\ SessionSet(loc[p].chatID, DeletePending(loc[p].sess))
    /\ Goto(p, "hat_apply", loc[p])
    /\ UNCHANGED <<db, btnEpic, btnRisk, ops, finalWrites, riskWrites, cfg, pickers, calls>>

\* DELETE FROM user_teams WHERE user_id = $1 AND team_id = $2
RemoveUserTeam(u) == user_teams' = user_teams \ {u}

\* case "assignteam": the teams of the user are read and AssignUserTeam runs
\* unless the team is among them; case "removefromteam": RemoveUserTeam
HAT_Apply(p) ==
    /\ pc[p] = "hat_apply"
    /\ IF loc[p].action = Str("assignteam")
       THEN IF loc[p].userID \in user_teams
            THEN Reply(p, loc[p], "already_member") /\ UNCHANGED user_teams
            ELSE /\ user_teams' = user_teams \cup {loc[p].userID}
                 /\ Reply(p, loc[p], "done")
       ELSE /\ RemoveUserTeam(loc[p].userID)
            /\ Reply(p, loc[p], "done")
    /\ UNCHANGED <<users, epics, risks, epic_scores, risk_scores,
                   epic_role_scores, sessions, btnEpic, btnRisk, ops,
                   finalWrites, riskWrites, cfg, pickers, calls>>

\* data = "adm_epic_<action>_<epicID>"; "startscore" goes on in
\* execStartScore, which reads the epic again and wants it NEW
handleAdmEpicSelected(p, c, sender, data) ==
    LET l0 == [LocIdle EXCEPT !.chatID = c, !.data = data]
        rest == TrimPrefix(data, Str("adm_epic_"))
        epicIDStr == LastID(rest)
        action == ActionOf(rest)
        l == [l0 EXCEPT !.action = action, !.idStr = epicIDStr]
        e == GetEpicByID(epicIDStr)
    IN  IF ~isAdmin(sender)
        THEN Reply(p, Denied(c), "denied") /\ UNCHANGED sessions
        ELSE IF Len(rest) < 37
        THEN Reply(p, l0, "malformed") /\ UNCHANGED sessions
        ELSE IF ~ParseOK(epicIDStr)
        THEN Reply(p, l, "parse_error") /\ UNCHANGED sessions
        ELSE IF e = "none"
        THEN Reply(p, l, "not_found") /\ UNCHANGED sessions
        ELSE IF action = Str("startscore")
        THEN /\ UNCHANGED sessions
             /\ IF epics[e].status # StatusNew THEN Reply(p, l, "not_new")
                ELSE Goto(p, "ess_epic", [l EXCEPT !.epicID = e])
        ELSE IF action \in {Str("results"), Str("epicstatus")}
        THEN Reply(p, l, "report") /\ UNCHANGED sessions
        ELSE IF action = Str("addrisk")
        THEN /\ SessionSet(c, [NewSession EXCEPT !.step = StepAddRiskDesc,
                                                 !.epicID = e])
             /\ Reply(p, l, "prompt")
        ELSE IF action = Str("deleteepic")
        THEN /\ SendKb(p, l, {Sprintf2("adm_confirm_", "deleteepic", UUIDs[e]),
                             Str("adm_deny_deleteepic")})
             /\ UNCHANGED sessions
        ELSE IF action = Str("deleterisk")
        THEN showRiskPicker(p, l, "deleterisk", e) /\ UNCHANGED sessions
        ELSE Reply(p, l, "unknown_action") /\ UNCHANGED sessions

\* data = "adm_risk_<action>_<epicID>_<riskID>"
handleAdmRiskSelected(p, c, sender, data) ==
    LET l0 == [LocIdle EXCEPT !.chatID = c, !.data = data]
        rest == TrimPrefix(data, Str("adm_risk_"))
        riskIDStr == LastID(rest)
        rest2 == Slice(rest, 0, Len(rest) - 37)
        epicIDStr == LastID(rest2)
        action == ActionOf(rest2)
        l == [l0 EXCEPT !.action = action, !.idStr = epicIDStr,
                        !.id2Str = riskIDStr]
        r == GetRiskByID(riskIDStr)
    IN  /\ UNCHANGED sessions
        /\ IF ~isAdmin(sender) THEN Reply(p, Denied(c), "denied")
           ELSE IF Len(rest) < 74 THEN Reply(p, l0, "malformed")
           ELSE IF ~ParseOK(epicIDStr) THEN Reply(p, l, "parse_error")
           ELSE IF ~ParseOK(riskIDStr) THEN Reply(p, l, "parse_error")
           ELSE IF r = "none" THEN Reply(p, l, "not_found")
           ELSE IF action = Str("deleterisk")
           THEN SendKb(p, l, {Sprintf2("adm_confirm_", "deleterisk", UUIDs[r]),
                              Str("adm_deny_deleterisk")})
           ELSE Reply(p, l, "unknown_action")

\* data = "adm_confirm_<action>_<id>": up to the switch
\* C30, faulty variant: the confirmation is open to every admin
C30_ConfirmByAdmin(p, c, sender, data) ==
    LET l0 == [LocIdle EXCEPT !.chatID = c, !.data = data]
        rest == TrimPrefix(data, Str("adm_confirm_"))
        idStr == LastID(rest)
        action == ActionOf(rest)
        l == [l0 EXCEPT !.action = action, !.idStr = idStr]
    IN  /\ UNCHANGED sessions
        /\ IF ~isAdmin(sender) THEN Reply(p, Denied(c), "denied")
           ELSE IF Len(rest) < 37 THEN Reply(p, l0, "malformed")
           ELSE IF ~ParseOK(idStr) THEN Reply(p, l, "parse_error")
           ELSE IF action \in {Str("deleteepic"), Str("deleterisk"),
                               Str("deleteuser")}
           THEN Goto(p, "hac_delete", [l EXCEPT !.sender = sender])
           ELSE Reply(p, l, "unknown_action")

\* data = "adm_confirm_<action>_<id>"; callback (its sender) is a parameter
\* of the handler up to the DELETE
handleAdmConfirm(p, c, sender, data) ==
    LET l0 == [LocIdle EXCEPT !.chatID = c, !.data = data]
        rest == TrimPrefix(data, Str("adm_confirm_"))
        idStr == LastID(rest)
        action == ActionOf(rest)
        l == [l0 EXCEPT !.action = action, !.idStr = idStr]
    IN  /\ UNCHANGED sessions
        /\ IF ~isSuperAdmin(sender) THEN Reply(p, Denied(c), "denied")
           ELSE IF Len(rest) < 37 THEN Reply(p, l0, "malformed")
           ELSE IF ~ParseOK(idStr) THEN Reply(p, l, "parse_error")
           ELSE IF action \in {Str("deleteepic"), Str("deleterisk"),
                               Str("deleteuser")}
           THEN Goto(p, "hac_delete", [l EXCEPT !.sender = sender])
           ELSE Reply(p, l, "unknown_action")

\* DELETE FROM epics WHERE id = $1, with the cascades of the schema
DeleteEpic(e) ==
    /\ epics' = [epics EXCEPT ![e] = [exists |-> FALSE, status |-> StatusNew,
                                      final_score |-> Nil]]
    /\ risks' = [r \in Risks |->
                    IF r \in RisksOf(e)
                    THEN [exists |-> FALSE, epic |-> "e1",
                          status |-> StatusNew, weighted_score |-> NilQ]
                    ELSE risks[r]]
    /\ epic_scores' = [epic_scores EXCEPT ![e] = {}]
    /\ epic_role_scores' = [epic_role_scores EXCEPT ![e] = NoFn]
    /\ risk_scores' = [r \in Risks |->
                          IF r \in RisksOf(e) THEN {} ELSE risk_scores[r]]
    /\ UNCHANGED <<users, user_teams>>

\* DELETE FROM risks WHERE id = $1
DeleteRisk(r) ==
    /\ risks' = [risks EXCEPT ![r] = [exists |-> FALSE, epic |-> "e1",
                                      status |-> StatusNew,
                                      weighted_score |-> NilQ]]
    /\ risk_scores' = [risk_scores EXCEPT ![r] = {}]
    /\ UNCHANGED <<users, user_teams, epics, epic_scores, epic_role_scores>>

\* DELETE FROM users WHERE id = $1
DeleteUser(u) ==
    /\ users' = [users EXCEPT ![u] = [exists |-> FALSE, weight |-> 0,
                                      role |-> "none", roles |-> {}]]
    /\ user_teams' = user_teams \ {u}
    /\ epic_scores' = [e \in Epics |->
                          {sc \in epic_scores[e] : sc.user # u}]
    /\ risk_scores' = [r \in Risks |->
                          {rs \in risk_scores[r] : rs.user # u}]
    /\ UNCHANGED <<epics, risks, epic_role_scores>>

\* switch action { case "deleteepic": ... "deleterisk": ... "deleteuser": }
\* the statement deletes the row with the id, if there is one
HAC_Delete(p) ==
    /\ pc[p] = "hac_delete"
    /\ LET e == GetEpicByID(loc[p].idStr)
           r == GetRiskByID(loc[p].idStr)
           u == GetUserByID(loc[p].idStr)
       IN  IF loc[p].action = Str("deleteepic") /\ e # "none"
           THEN DeleteEpic(e)
           ELSE IF loc[p].action = Str("deleterisk") /\ r # "none"
           THEN DeleteRisk(r)
           ELSE IF loc[p].action = Str("deleteuser") /\ u # "none"
           THEN DeleteUser(u)
           ELSE UNCHANGED db
    /\ Reply(p, loc[p], "done")
    /\ UNCHANGED <<sessions, btnEpic, btnRisk, ops, finalWrites, riskWrites, cfg, pickers,
                   calls>>

\* ------------------------------------- callbacks.go: handleCallbackQuery
handleCallbackQuery(p, c, sender, data) ==
    /\ Begin(p)
    /\ IF data = Str("adm_cancel")
       THEN /\ SessionClear(c)
            /\ Reply(p, [LocIdle EXCEPT !.chatID = c, !.data = data],
                     "cancelled")
       ELSE IF HasPrefix(data, Str("adm_user_"))
       THEN handleAdmUserSelected(p, c, sender, data)
       ELSE IF HasPrefix(data, Str("adm_role_"))
       THEN handleAdmRoleSelected(p, c, sender, data)
       ELSE IF HasPrefix(data, Str("adm_team_"))
       THEN handleAdmTeamSelected(p, c, sender, data)
       ELSE IF HasPrefix(data, Str("adm_epic_"))
       THEN handleAdmEpicSelected(p, c, sender, data)
       ELSE IF HasPrefix(data, Str("adm_risk_"))
       THEN handleAdmRiskSelected(p, c, sender, data)
       ELSE IF HasPrefix(data, Str("adm_confirm_"))
       THEN handleAdmConfirm(p, c, sender, data)
       ELSE IF HasPrefix(data, Str("adm_deny_"))
       THEN /\ SessionClear(c)
            /\ Reply(p, [LocIdle EXCEPT !.chatID = c, !.data = data],
                     "cancelled")
       ELSE UNCHANGED <<pc, loc, sessions>>
    /\ UNCHANGED <<db, btnEpic, btnRisk, finalWrites, riskWrites, cfg>>

\* the users for whom a picker with the button data is on the screen of
\* chat c: the token of a role or team button names no user, so the pickers
\* of two users carry the same tokens
PickersOf(c, data) == {u \in Users : <<c, u, data>> \in pickers.shown}

\* the actions whose picker stashes the user in the session
PickerActions == {Str("assignrole"), Str("unassignrole"),
                  Str("assignteam"), Str("removefromteam")}

\* a click of sender in chat c on the button data of the picker that was sent
\* for forUser ("none": no picker on the screen has this button); the update
\* carries the message of the button, which handleCallbackQuery does not read.
\* The history keeps forUser of a click that goes on to an assignment
ClickButton(p, c, sender, data, forUser) ==
    /\ forUser \in (IF PickersOf(c, data) = {} THEN {"none"}
                    ELSE PickersOf(c, data))
    /\ handleCallbackQuery(p, c, sender, data)
    /\ pickers' =
           [shown |->
                IF pc'[p] = "send_kb" /\ loc'[p].action \in PickerActions
                THEN pickers.shown \cup
                         {<<c, sessions'[c].pendingUserID, t>> :
                             t \in loc'[p].rows \ {Str("adm_cancel")}}
                ELSE pickers.shown,
            clicked |-> IF pc'[p] \in {"har_set", "hat_set"} THEN forUser
                        ELSE "none"]

\* ------------- handlers.go: handleSessionInput, the steps of the pickers
\* sess, ok := sessions.get(chatID); if !ok { return }; sessions.touch();
\* switch sess.Step: StepAddRiskDesc clears the session and creates the
\* risk; a session without a step (of a picker) runs the default case,
\* which clears it
handleSessionInput(p, c) ==
    /\ Begin(p)
    /\ IF ~SessionFound(c)
       THEN UNCHANGED <<pc, loc, sessions>>
       ELSE /\ sessions[c].step \in {"", StepAddRiskDesc}
            /\ \E r \in Risks : ~risks[r].exists
            /\ IF sessions[c].step = ""
               THEN SessionClear(c) /\ UNCHANGED <<pc, loc>>
               ELSE /\ SessionClear(c)
                    /\ Goto(p, "hsi_risk",
                            [LocIdle EXCEPT !.chatID = c,
                                            !.sess = sessions[c],
                                            !.epicID = sessions[c].epicID])
    /\ UNCHANGED <<db, btnEpic, btnRisk, finalWrites, riskWrites, cfg, pickers>>

\* risk, err := repo.CreateRisk(text, epicID): the row refers to the epic
HSI_CreateRisk(p) ==
    /\ pc[p] = "hsi_risk"
    /\ IF epics[loc[p].epicID].exists
       THEN /\ risks' = [risks EXCEPT
                           ![CHOOSE r \in Risks : ~risks[r].exists] =
                               [exists |-> TRUE, epic |-> loc[p].epicID,
                                status |-> StatusNew,
                                weighted_score |-> NilQ]]
            /\ Reply(p, loc[p], "done")
       ELSE /\ Reply(p, loc[p], "error")
            /\ UNCHANGED risks
    /\ UNCHANGED <<users, user_teams, epics, epic_scores, risk_scores,
                   epic_role_scores, sessions, btnEpic, btnRisk, ops,
                   finalWrites, riskWrites, cfg, pickers, calls>>

\* ---------------------------------------------------------- specification
\* the inputs of the concurrent specification: one chat; one effort and a
\* number out of range; one probability/impact pair
ChatsConc == {"c1"}
EffortTextsConc == {5, 501}
RiskInputsConc == {<<4, 3>>}

\* the steps of the handlers that have started
Step ==
    \/ \E p \in Procs : HSI_Clear(p)
    \/ \E p \in Procs : HSI_CreateEpicScore(p)
    \/ \E p \in Procs : execStartScore(p)
    \/ \E p \in Procs : TryCompleteRiskScoring(p)
    \/ \E p \in Procs : TryCompleteEpicScoring(p)

\* the menus, in the chats C
Show(C) ==
    \/ \E u \in Users : ShowTeamEpics(u)
    \/ \E u \in Users, e \in Epics, c \in C : ShowEpicScoreOptions(u, e, c)

\* the bot: every update is handled in its own goroutine
Next ==
    \/ Show(ChatsConc)
    \/ Step
    \/ /\ ops < MaxOps
       /\ \/ \E p \in Procs, c \in ChatsConc, text \in EffortTextsConc :
                 HSI_Get(p, c, text)
          \/ \E p \in Procs, u \in Users, r \in Risks, in \in RiskInputsConc :
                 HRI_CreateRiskScore(p, u, r, in)
          \/ \E p \in Procs, e \in Epics : ESS_GetEpicByID(p, e)
          \/ \E r \in Risks, e \in Epics : CreateRisk(r, e)
          \/ \E u \in Users : AssignUserTeam(u)

Spec == Init /\ [][Next]_vars

\* the operations one after the other: an update, or a direct call of
\* TryCompleteEpicScoring, starts only when no handler is running
AllIdle == \A p \in Procs : pc[p] = "idle"

InitSeq ==
    \E U \in UserConfigs, T \in {{"u1"}, Users}, R \in {{"r1"}, Risks} :
        InitWith(U, T, R)

OneAtATime(C) ==
    \/ AllIdle /\ Show(C)
    \/ Step
    \/ /\ AllIdle
       /\ ops < MaxOpsSeq
       /\ \/ \E p \in Procs, c \in C, text \in EffortTexts :
                 HSI_Get(p, c, text)
          \/ \E p \in Procs, u \in Users, r \in Risks, in \in RiskInputs :
                 HRI_CreateRiskScore(p, u, r, in)
          \/ \E p \in Procs, e \in Epics : ESS_GetEpicByID(p, e)
          \/ \E r \in Risks, e \in Epics : CreateRisk(r, e)
          \/ \E u \in Users : AssignUserTeam(u)
          \/ \E p \in Procs, e \in Epics : CallTryCompleteEpicScoring(p, e)

NextSeq == OneAtATime(ChatsConc)

SpecSeq == InitSeq /\ [][NextSeq]_vars

\* the operations one after the other, with the score menu opened in two
\* chats
NextChats == OneAtATime(Chats)

SpecChats == Init /\ [][NextChats]_vars

\* the administration of the bot: commands, picker buttons and replies, one
\* update after the other in one chat, while the clock runs
\* the callback data: every token a picker can produce, tokens whose action
\* holds an underscore, and tokens that do not match the grammar
ProducedTokens ==
    {Sprintf2("adm_user_", a, UUIDs[u]) : a \in UserPickerCommands, u \in Users}
    \cup {Sprintf2("adm_role_", a, UUIDs[r]) :
             a \in {"assignrole", "unassignrole"}, r \in Roles}
    \cup {Sprintf2("adm_team_", a, UUIDs[t]) :
             a \in {"addepic", "list", "assignteam", "removefromteam"},
             t \in Teams}
    \cup {Sprintf2("adm_epic_", a, UUIDs[e]) :
             a \in {"addrisk", "startscore", "results", "epicstatus",
                    "deleteepic", "deleterisk"}, e \in Epics}
    \cup {Sprintf3("adm_risk_", "deleterisk", UUIDs[e], UUIDs[r]) :
             e \in Epics, r \in Risks}
    \cup {Sprintf2("adm_confirm_", "deleteuser", UUIDs[u]) : u \in Users}
    \cup {Sprintf2("adm_confirm_", "deleteepic", UUIDs[e]) : e \in Epics}
    \cup {Sprintf2("adm_confirm_", "deleterisk", UUIDs[r]) : r \in Risks}
    \cup {Str("adm_cancel"), Str("adm_deny_deleteepic")}

UnderscoreTokens ==
    {Sprintf2(d, "start_score", UUIDs["e1"]) :
        d \in {"adm_user_", "adm_role_", "adm_team_", "adm_epic_",
               "adm_confirm_"}}
    \cup {Sprintf3("adm_risk_", "start_score", UUIDs["e1"], UUIDs["r1"])}

\* an identifier with a byte that is no hex digit, and one of 35 bytes
BadID == [UUIDs["e1"] EXCEPT ![1] = "z"]
ShortID == Tail(UUIDs["e1"])

MalformedTokens ==
    { \* another byte than "_" before the identifier
      Str("adm_epic_") \o Str("startscore") \o Str("X") \o UUIDs["e1"],
      Str("adm_confirm_") \o Str("deleterisk") \o Str("X") \o UUIDs["r1"],
      Str("adm_risk_") \o Str("deleterisk") \o Str("_") \o UUIDs["e1"]
          \o Str("X") \o UUIDs["r1"],
      \* no action
      Str("adm_user_") \o Str("_") \o UUIDs["u1"],
      Str("adm_epic_") \o Str("_") \o UUIDs["e1"],
      \* nothing but an identifier
      Str("adm_epic_") \o UUIDs["e1"],
      Str("adm_team_") \o UUIDs["t1"],
      Str("adm_confirm_") \o UUIDs["e1"],
      \* identifiers that are too short or no UUID
      Sprintf2("adm_epic_", "startscore", ShortID),
      Sprintf2("adm_epic_", "startscore", BadID),
      Sprintf2("adm_confirm_", "deleteepic", BadID),
      Sprintf2("adm_role_", "assignrole", BadID),
      Sprintf3("adm_risk_", "deleterisk", BadID, UUIDs["r1"]) }

TokenInputs == ProducedTokens \cup UnderscoreTokens \cup MalformedTokens

InitAdmin ==
    InitWith([u \in Users |->
                 [exists |-> TRUE, weight |-> 1,
                  role |-> IF u = "u1" THEN "dev" ELSE "qa",
                  roles |-> {IF u = "u1" THEN "dev" ELSE "qa"}]],
             {"u1"}, {"r1"})

StepAdmin ==
    \/ \E p \in Procs : sendReply(p)
    \/ \E p \in Procs : sendWithKeyboard(p)
    \/ \E p \in Procs : HAR_Set(p)
    \/ \E p \in Procs : HAR_Apply(p)
    \/ \E p \in Procs : HAT_Set(p)
    \/ \E p \in Procs : HAT_Apply(p)
    \/ \E p \in Procs : HAC_Delete(p)
    \/ \E p \in Procs : HSI_CreateRisk(p)
    \/ \E p \in Procs : execStartScore(p)

NextAdmin ==
    \/ StepAdmin
    \/ AllIdle /\ Tick
    \/ /\ AllIdle
       /\ ops < MaxOpsAdmin
       /\ \E p \in Procs, c \in ChatsConc :
             \/ \E sender \in Senders, cmd \in Commands :
                    commandHandler(p, c, sender, cmd)
             \/ \E sender \in Senders, data \in TokenInputs :
                    handleCallbackQuery(p, c, sender, data)
                        /\ UNCHANGED pickers
             \/ handleSessionInput(p, c)

SpecAdmin == InitAdmin /\ [][NextAdmin]_vars

\* ------------------------------------------------ strconv and strings
Digits == <<"0", "1", "2", "3", "4", "5", "6", "7", "8", "9">>
IsDigit(ch) == \E i \in 1..10 : Digits[i] = ch
DigitVal(ch) == (CHOOSE i \in 1..10 : Digits[i] = ch) - 1

RECURSIVE Decimal(_)
Decimal(s) ==
    IF Len(s) = 0 THEN 0
    ELSE 10 * Decimal(SubSeq(s, 1, Len(s) - 1)) + DigitVal(s[Len(s)])

\* strconv.Atoi(s): an optional sign and at least one digit, and nothing
\* else; ok is err == nil
Atoi(s) ==
    LET signed == Len(s) > 0 /\ s[1] \in {"+", "-"}
        body == IF signed THEN Tail(s) ELSE s
        ok == Len(body) > 0 /\ \A i \in 1..Len(body) : IsDigit(body[i])
    IN  [ok |-> ok,
         val |-> IF ~ok THEN 0
                 ELSE IF signed /\ s[1] = "-" THEN 0 - Decimal(body)
                 ELSE Decimal(body)]

\* strings.Split(s, "_")
RECURSIVE Split(_)
Split(s) ==
    IF \A i \in 1..Len(s) : s[i] # "_" THEN <<s>>
    ELSE LET i == CHOOSE k \in 1..Len(s) :
                      s[k] = "_" /\ \A j \in 1..(k - 1) : s[j] # "_"
         IN  <<SubSeq(s, 1, i - 1)>> \o Split(SubSeq(s, i + 1, Len(s)))

\* ------------------------------------------------ repositories/user.go
\* the user whose telegram_id is the text s (the model names a user by its
\* telegram_id)
UserNamed(s) ==
    IF \E u \in Users : Str(u) = s
    THEN CHOOSE u \in Users : Str(u) = s
    ELSE "none"

\* SELECT ... FROM users WHERE telegram_id = $1
FindUserByTelegramID(s) ==
    IF UserNamed(s) # "none" /\ users[UserNamed(s)].exists
    THEN UserNamed(s)
    ELSE "none"

\* weight INT NOT NULL DEFAULT 100 CHECK (weight >= 0 AND weight <= 100)
CheckWeight(w) == w >= 0 /\ w <= 100

\* CHECK (probability >= 1 AND probability <= 4), and the same for impact
CheckRiskScore(probability, impact) ==
    /\ probability >= 1 /\ probability <= 4
    /\ impact >= 1 /\ impact <= 4

\* INSERT INTO users (id, first_name, last_name, telegram_id, weight): the
\* statement fails when telegram_id is taken or the weight breaks the CHECK
CreateUserOK(u, w) == u # "none" /\ ~users[u].exists /\ CheckWeight(w)
CreateUser(u, w) ==
    users' = [users EXCEPT ![u] = [exists |-> TRUE, weight |-> w,
                                   role |-> "none", roles |-> {}]]

\* UPDATE users SET weight = $1 WHERE id = $2
UpdateUserWeight(u, w) ==
    users' = [users EXCEPT ![u].weight = IF users[u].exists THEN w ELSE @]

\* ---------------------------------- handlers.go: the checks of the numbers
\* C24, faulty variant: the handler takes every number as a weight
C24_AnyWeight(a) == a.ok

\* C25, faulty variant: the check of the weight forgets the lower bound
C25_NoLowerBound(a) == a.ok /\ a.val <= 100

\* !(err != nil || weight < 0 || weight > 100)
WeightOK(a) == a.ok /\ a.val >= 0 /\ a.val <= 100

\* !(err != nil || score < 0 || score > 500)
EffortOK(a) == a.ok /\ a.val >= 0 /\ a.val <= 500

\* C26, faulty variant: the check of a factor forgets the upper bound
C26_NoUpperBound(a) == a.ok /\ a.val >= 1

\* !(err != nil || impact < 1 || impact > 4), and the same for prob
FactorOK(a) == a.ok /\ a.val >= 1 /\ a.val <= 4

\* ------------------------------------------------ handlers.go: /adduser
\* the arguments of /adduser the model sends: none, and four fields
AddUserArgs ==
    { <<>>, <<"@u2", "ann", "ann", "100">>, <<"@u2", "ann", "ann", "101">>,
      <<"u1", "ann", "ann", "7">>, <<"@", "ann", "ann", "7">> }

\* commandHandler: sessions.clear(chatID); case "adduser": handleAddUser
handleAddUser(p, c, sender, args) ==
    /\ Begin(p)
    /\ LET l == [LocIdle EXCEPT !.chatID = c]
           username == TrimPrefix(Str(args[1]), Str("@"))
           weight == Atoi(Str(args[4]))
       IN  IF ~isAdmin(sender)
           THEN SessionClear(c) /\ Reply(p, l, "denied")
           ELSE IF Len(args) >= 4
           THEN /\ SessionClear(c)
                /\ IF username = <<>> THEN Reply(p, l, "invalid")
                   ELSE IF ~WeightOK(weight) THEN Reply(p, l, "invalid")
                   ELSE IF FindUserByTelegramID(username) # "none"
                   THEN Reply(p, l, "exists")
                   ELSE Goto(p, "hau_create",
                             [l EXCEPT !.userID = UserNamed(username),
                                       !.weight = weight.val])
           ELSE \* the cleared entry is replaced by the session of the form
                /\ SessionSet(c, [NewSession EXCEPT
                                     !.step = StepAddUserUsername])
                /\ Reply(p, l, "prompt")
    /\ UNCHANGED <<db, btnEpic, btnRisk, finalWrites, riskWrites, cfg, pickers>>

\* user, err = repo.CreateUser(args[1], args[2], username, weight)
HAU_CreateUser(p) ==
    /\ pc[p] = "hau_create"
    /\ \/ /\ CreateUserOK(loc[p].userID, loc[p].weight)
          /\ CreateUser(loc[p].userID, loc[p].weight)
          /\ Reply(p, loc[p], "done")
       \/ /\ UNCHANGED users
          /\ Reply(p, loc[p], "error")
    /\ UNCHANGED <<user_teams, epics, risks, epic_scores, risk_scores,
                   epic_role_scores, sessions, btnEpic, btnRisk, ops,
                   finalWrites, riskWrites, cfg, pickers, calls>>

\* ----------------------------- handlers.go: handleSessionInput, every step
\* the replies the model sends at a step
TextsFor(step) ==
    IF step = StepAddUserUsername THEN {"", "@", "@u2", "u1"}
    ELSE IF step \in {StepAddUserWeight, StepChangeRateWeight}
    THEN {"+7", "0", "101", "-1", "ann"}
    ELSE IF step = StepScoreEpicEffort THEN {"5", "-1", "-"}
    ELSE IF step = StepAddRiskDesc THEN {"ann"}
    ELSE {"", "ann"}
TextInputs == UNION {TextsFor(s) : s \in {StepAddUserUsername,
                                          StepAddUserWeight,
                                          StepScoreEpicEffort, ""}}

\* sess, ok := sessions.get(chatID); if !ok { return };
\* sessions.touch(chatID)
HSI_Touch(p, c, text) ==
    /\ Begin(p)
    /\ IF ~SessionFound(c)
       THEN UNCHANGED <<pc, loc, sessions>>
       ELSE /\ text \in TextsFor(sessions[c].step)
            /\ sessions[c].step = StepAddRiskDesc
                   => \E r \in Risks : ~risks[r].exists
            /\ SessionTouch(c)
            /\ Goto(p, "hsi_switch",
                    [LocIdle EXCEPT !.chatID = c, !.sess = sessions[c],
                                    !.text = text,
                                    !.epicID = sessions[c].epicID])
    /\ UNCHANGED <<db, btnEpic, btnRisk, finalWrites, riskWrites, cfg, pickers>>

\* switch sess.Step { ... }: up to the call of the repository
\* epics.number of the epic of the model
EpicNumber == [e \in Epics |-> "7"]

\* SELECT ... FROM epics WHERE number = $1, QueryRowContext(...).Scan(...):
\* with no row Scan returns sql.ErrNoRows, which the function wraps and
\* returns; it returns (nil, nil) in no case
GetEpicByNumber(number) ==
    LET found == {e \in Epics : epics[e].exists /\ EpicNumber[e] = number}
    IN  IF found = {} THEN [err |-> TRUE, epic |-> "none"]
        ELSE [err |-> FALSE, epic |-> CHOOSE e \in found : TRUE]

HSI_Switch(p) ==
    /\ pc[p] = "hsi_switch"
    /\ LET c == loc[p].chatID
           sess == loc[p].sess
           text == loc[p].text
           l == loc[p]
           username == TrimPrefix(Str(text), Str("@"))
           n == Atoi(Str(text))
           byNumber == GetEpicByNumber(sess.number)
           Retry == Reply(p, l, "invalid") /\ UNCHANGED sessions
           Ask(s) == SessionSet(c, s) /\ Reply(p, l, "prompt")
       IN  CASE sess.step = StepAddUserUsername ->
                  IF username = <<>> THEN Retry
                  ELSE Ask([sess EXCEPT !.username = UserNamed(username),
                                        !.step = StepAddUserFirstName])
             [] sess.step = StepAddUserFirstName ->
                  IF text = "" THEN Retry
                  ELSE Ask([sess EXCEPT !.firstName = text,
                                        !.step = StepAddUserLastName])
             [] sess.step = StepAddUserLastName ->
                  IF text = "" THEN Retry
                  ELSE Ask([sess EXCEPT !.lastName = text,
                                        !.step = StepAddUserWeight])
             [] sess.step = StepAddUserWeight ->
                  IF ~WeightOK(n) THEN Retry
                  ELSE /\ Goto(p, "hsi_create_user",
                               [l EXCEPT !.userID = sess.username,
                                         !.weight = n.val])
                       /\ UNCHANGED sessions
             [] sess.step = StepRenameUserFirstName ->
                  IF text = "" THEN Retry
                  ELSE Ask([sess EXCEPT !.firstName = text,
                                        !.step = StepRenameUserLastName])
             [] sess.step = StepRenameUserLastName ->
                  IF text = "" THEN Retry
                  ELSE /\ SessionClear(c)
                       /\ IF sess.pendingUserID = "none"
                          THEN Reply(p, l, "parse_error")
                          ELSE Goto(p, "hsi_rename",
                                    [l EXCEPT !.userID = sess.pendingUserID])
             [] sess.step = StepChangeRateWeight ->
                  IF ~WeightOK(n) THEN Retry
                  ELSE /\ SessionClear(c)
                       /\ IF sess.pendingUserID = "none"
                          THEN Reply(p, l, "parse_error")
                          ELSE Goto(p, "hsi_weight",
                                    [l EXCEPT !.userID = sess.pendingUserID,
                                              !.weight = n.val])
             [] sess.step = StepAddEpicNumber ->
                  \* GetEpicByNumber(sess.Data["number"]): the key is not
                  \* set yet, so the number looked up is ""
                  IF byNumber.err
                  THEN Reply(p, l, "error") /\ UNCHANGED sessions
                  ELSE IF byNumber.epic # "none"
                  THEN Reply(p, l, "exists") /\ UNCHANGED sessions
                  ELSE Ask([sess EXCEPT !.number = text,
                                        !.step = StepAddEpicName])
             [] sess.step = StepAddEpicName ->
                  Ask([sess EXCEPT !.name = text, !.step = StepAddEpicDesc])
             [] sess.step = StepAddEpicDesc ->
                  /\ SessionClear(c)
                  /\ IF sess.teamID = "none" THEN Reply(p, l, "parse_error")
                     ELSE IF byNumber.err THEN Reply(p, l, "error")
                     ELSE IF byNumber.epic # "none" THEN Reply(p, l, "exists")
                     ELSE Goto(p, "hsi_create_epic", l)
             [] sess.step = StepAddRiskDesc ->
                  /\ SessionClear(c)
                  /\ IF sess.epicID = "none" THEN Reply(p, l, "parse_error")
                     ELSE Goto(p, "hsi_risk", l)
             [] sess.step = StepScoreEpicEffort ->
                  IF ~EffortOK(n) THEN Retry
                  ELSE /\ Goto(p, "hsi_clear", [l EXCEPT !.score = n.val])
                       /\ UNCHANGED sessions
             [] OTHER -> SessionClear(c) /\ Return(p)
    /\ UNCHANGED <<db, btnEpic, btnRisk, ops, finalWrites, riskWrites, cfg, pickers, calls>>

\* C23, faulty variant: the session is cleared only after the error check
C23_ClearOnSuccessOnly(p) ==
    /\ pc[p] = "hsi_create_user"
    /\ \/ /\ CreateUserOK(loc[p].userID, loc[p].weight)
          /\ CreateUser(loc[p].userID, loc[p].weight)
          /\ SessionClear(loc[p].chatID)
          /\ Reply(p, loc[p], "done")
       \/ /\ UNCHANGED <<users, sessions>>
          /\ Reply(p, loc[p], "error")
    /\ UNCHANGED <<user_teams, epics, risks, epic_scores, risk_scores,
                   epic_role_scores, btnEpic, btnRisk, ops, finalWrites,
                   riskWrites, cfg, pickers, calls>>

\* user, err := repo.CreateUser(...); sessions.clear(chatID);
\* if err != nil { reply; return }
HSI_CreateUser(p) ==
    /\ pc[p] = "hsi_create_user"
    /\ SessionClear(loc[p].chatID)
    /\ \/ /\ CreateUserOK(loc[p].userID, loc[p].weight)
          /\ CreateUser(loc[p].userID, loc[p].weight)
          /\ Reply(p, loc[p], "done")
       \/ /\ UNCHANGED users
          /\ Reply(p, loc[p], "error")
    /\ UNCHANGED <<user_teams, epics, risks, epic_scores, risk_scores,
                   epic_role_scores, btnEpic, btnRisk, ops, finalWrites,
                   riskWrites, cfg, pickers, calls>>

\* if err := repo.UpdateUserName(userID, firstName, text); err != nil
\* { reply; return }: the model keeps no names
HSI_UpdateUserName(p) ==
    /\ pc[p] = "hsi_rename"
    /\ \/ Reply(p, loc[p], "done")
       \/ Reply(p, loc[p], "error")
    /\ UNCHANGED <<db, sessions, btnEpic, btnRisk, ops, finalWrites,
                   riskWrites, cfg, pickers, calls>>

\* if err := repo.UpdateUserWeight(userID, weight); err != nil
\* { reply; return }
HSI_UpdateUserWeight(p) ==
    /\ pc[p] = "hsi_weight"
    /\ \/ /\ CheckWeight(loc[p].weight)
          /\ UpdateUserWeight(loc[p].userID, loc[p].weight)
          /\ Reply(p, loc[p], "done")
       \/ /\ UNCHANGED users
          /\ Reply(p, loc[p], "error")
    /\ UNCHANGED <<user_teams, epics, risks, epic_scores, risk_scores,
                   epic_role_scores, sessions, btnEpic, btnRisk, ops,
                   finalWrites, riskWrites, cfg, pickers, calls>>

\* epic, err = repo.CreateEpic(number, name, desc, teamID): INSERT INTO epics
\* ... status NEW. No behaviour reaches this statement (GetEpicByNumber never
\* returns (nil, nil)), so the action is part of no next-state relation.
HSI_CreateEpic(p) ==
    /\ pc[p] = "hsi_create_epic"
    /\ \/ \E e \in Epics :
             /\ ~epics[e].exists
             /\ epics' = [epics EXCEPT ![e] = [exists |-> TRUE,
                                                status |-> StatusNew,
                                                final_score |-> Nil]]
             /\ Reply(p, loc[p], "done")
       \/ UNCHANGED epics /\ Reply(p, loc[p], "error")
    /\ UNCHANGED <<users, user_teams, risks, epic_scores, risk_scores,
                   epic_role_scores, sessions, btnEpic, btnRisk, ops,
                   finalWrites, riskWrites, cfg, pickers, calls>>

\* CreateRisk or CreateEpicScore returns an error: the reply names it
HSI_RepoError(p) ==
    /\ pc[p] \in {"hsi_risk", "hsi_create"}
    /\ Reply(p, loc[p], "error")
    /\ UNCHANGED <<db, sessions, btnEpic, btnRisk, ops, finalWrites,
                   riskWrites, cfg, pickers, calls>>

\* ------------------------- callbacks.go: handleRiskImpact, from the token
\* "riskimp_<riskID>_<probability>_<impact>"
RiskImpToken(id, prob, impact) ==
    Str("riskimp_") \o id \o Str("_") \o Str(prob) \o Str("_") \o Str(impact)

\* the tokens of the buttons, and tokens with a number out of range, with
\* a word for a number, and with two fields
RiskImpTokens ==
    {RiskImpToken(UUIDs["r1"], in[1], in[2]) :
        in \in {<<"4", "3">>, <<"0", "3">>, <<"4", "5">>, <<"ann", "3">>}}
    \cup {Str("riskimp_") \o UUIDs["r1"] \o Str("_") \o Str("4")}

handleRiskImpact(p, c, username, data) ==
    /\ Begin(p)
    /\ \E r \in btnRisk : HasPrefix(data, Str("riskimp_") \o UUIDs[r])
    /\ LET l == [LocIdle EXCEPT !.chatID = c, !.data = data]
           parts == Split(TrimPrefix(data, Str("riskimp_")))
           impact == Atoi(parts[3])
           prob == Atoi(parts[2])
           r == GetRiskByID(parts[1])
       IN  IF Len(parts) # 3 THEN Reply(p, l, "malformed")
           ELSE IF ~FactorOK(impact) THEN Reply(p, l, "invalid")
           ELSE IF ~FactorOK(prob) THEN Reply(p, l, "invalid")
           ELSE IF ~ParseOK(parts[1]) THEN Reply(p, l, "parse_error")
           ELSE IF FindUserByTelegramID(Str(username)) = "none"
           THEN Reply(p, l, "not_found")
           ELSE Goto(p, "hri_create",
                     [l EXCEPT !.userID = username, !.riskID = r,
                               !.score = prob.val, !.weight = impact.val])
    /\ UNCHANGED <<db, sessions, btnEpic, btnRisk, finalWrites, riskWrites, cfg, pickers>>

\* if err := repo.CreateRiskScore(riskID, user.ID, prob, impact); err != nil
\* { reply; return }; reply; scoring.TryCompleteRiskScoring(ctx, riskID)
HRI_Create(p) ==
    /\ pc[p] = "hri_create"
    /\ LET r == loc[p].riskID
       IN  \/ /\ r # "none"
              /\ CheckRiskScore(loc[p].score, loc[p].weight)
              /\ risk_scores' =
                     [risk_scores EXCEPT
                        ![r] = CreateRiskScore(@, loc[p].userID,
                                               loc[p].score, loc[p].weight)]
              /\ Goto(p, "tcr_get", loc[p])
           \/ /\ UNCHANGED risk_scores
              /\ Reply(p, loc[p], "error")
    /\ UNCHANGED <<users, user_teams, epics, risks, epic_scores,
                   epic_role_scores, sessions, btnEpic, btnRisk, ops,
                   finalWrites, riskWrites, cfg, pickers, calls>>

\* ------------------------------------ callbacks.go: handleEpicScoreSubmit
\* strings.LastIndex(s, "_"): the 0-based index of the last "_", -1 if none
LastIndex(s) ==
    IF \A i \in 1..Len(s) : s[i] # "_" THEN 0 - 1
    ELSE (CHOOSE k \in 1..Len(s) :
              s[k] = "_" /\ \A j \in (k + 1)..Len(s) : s[j] # "_") - 1

\* the tokens "score_epic_<epicID>_<value>" the transport delivers: efforts
\* in and out of the range of the reply step, and a token without a value
EpicScoreTokens ==
    {Str("score_epic_") \o UUIDs["e1"] \o Str("_") \o Str(v) :
        v \in {"5", "501", "0"}}
    \cup {Str("score_epic_")}

\* a click of username on a "score_epic_<epicID>_<value>" button in chat c
handleEpicScoreSubmit(p, c, username, data) ==
    /\ Begin(p)
    /\ HasPrefix(data, Str("score_epic_"))
    /\ LET l == [LocIdle EXCEPT !.chatID = c, !.data = data]
           trimmed == TrimPrefix(data, Str("score_epic_"))
           lastUnderscore == LastIndex(trimmed)
           epicIDStr == Slice(trimmed, 0, lastUnderscore)
           valueStr == Slice(trimmed, lastUnderscore + 1, Len(trimmed))
           score == Atoi(valueStr)
           user == FindUserByTelegramID(Str(username))
       IN  IF lastUnderscore < 0 THEN Reply(p, l, "malformed")
           ELSE IF ~ParseOK(epicIDStr) THEN Reply(p, l, "parse_error")
           ELSE IF ~score.ok \/ score.val < 1 THEN Reply(p, l, "invalid")
           ELSE IF user = "none" THEN Reply(p, l, "not_found")
           ELSE IF users[user].role = "none" THEN Reply(p, l, "no_role")
           ELSE Goto(p, "hes_create",
                     [l EXCEPT !.userID = user, !.score = score.val,
                               !.epicID = GetEpicByID(epicIDStr)])
    /\ UNCHANGED <<db, sessions, btnEpic, btnRisk, finalWrites, riskWrites, cfg, pickers>>

\* repo.CreateEpicScore(epicID, user.ID, role.ID, score), then
\* scoring.TryCompleteEpicScoring(epicID); the insert fails for an epic that
\* is not in the table (foreign key)
HES_Create(p) ==
    /\ pc[p] = "hes_create"
    /\ LET e == loc[p].epicID
           u == loc[p].userID
       IN  IF e = "none"
           THEN UNCHANGED epic_scores /\ Reply(p, loc[p], "error")
           ELSE /\ epic_scores' =
                     [epic_scores EXCEPT
                        ![e] = CreateEpicScore(@, u, users[u].role,
                                               loc[p].score)]
                /\ Goto(p, "tce_get", loc[p])
    /\ UNCHANGED <<users, user_teams, epics, risks, risk_scores,
                   epic_role_scores, sessions, btnEpic, btnRisk, ops,
                   finalWrites, riskWrites, cfg, pickers, calls>>

\* ------------------------------------------- the flows of the conversation
\* the commands and the buttons of the flows, one update after the other in
\* one chat while the clock runs; scoring of the epic and its risk r1 has
\* been started, u1 is the team and u2 is not registered yet
FlowCommands == {"list", "renameuser"}
FlowTokens ==
    {Sprintf2("adm_user_", a, UUIDs["u1"]) : a \in {"renameuser", "changerate"}}
    \cup {Sprintf2("adm_team_", "addepic", UUIDs["t1"]),
          Sprintf2("adm_epic_", "addrisk", UUIDs["e1"]),
          Str("adm_cancel")}
FlowSenders == {"super", "user"}

\* the state of a database in which scoring of the epic and of its risks R
\* has been started (execStartScore) and nobody has scored yet
InitScoring(U, T, R, S) ==
    /\ users = U
    /\ user_teams = T
    /\ epics = [e \in Epics |-> [exists |-> TRUE, status |-> StatusScoring,
                                  final_score |-> Nil]]
    /\ risks = [r \in Risks |->
                  [exists |-> r \in R, epic |-> "e1",
                   status |-> IF r \in R THEN StatusScoring ELSE StatusNew,
                   weighted_score |-> NilQ]]
    /\ epic_scores = [e \in Epics |-> {}]
    /\ risk_scores = [r \in Risks |-> {}]
    /\ epic_role_scores = [e \in Epics |-> NoFn]
    /\ sessions = S
    /\ btnEpic = {}
    /\ btnRisk = {}
    /\ pc = [p \in Procs |-> "idle"]
    /\ loc = [p \in Procs |-> LocIdle]
    /\ ops = 0
    /\ finalWrites = [e \in Epics |-> 0]
    /\ riskWrites = [r \in Risks |-> 0]
    /\ admins = InitAdmins
    /\ adminsIdeal = InitAdmins
    /\ pickers = NoPickers
    /\ calls = <<>>

InitFlowWith(S) ==
    InitScoring([u \in Users |->
                    IF u = "u1"
                    THEN [exists |-> TRUE, weight |-> 1, role |-> "dev",
                          roles |-> {"dev"}]
                    ELSE [exists |-> FALSE, weight |-> 0, role |-> "none",
                          roles |-> {}]],
                {"u1"}, {"r1"}, S)

InitFlow == InitFlowWith([c \in Chats |-> NoSession])

StepFlow ==
    \/ \E p \in Procs : sendReply(p)
    \/ \E p \in Procs : sendWithKeyboard(p)
    \/ \E p \in Procs : HAU_CreateUser(p)
    \/ \E p \in Procs : HSI_Switch(p)
    \/ \E p \in Procs : HSI_CreateUser(p)
    \/ \E p \in Procs : HSI_UpdateUserName(p)
    \/ \E p \in Procs : HSI_UpdateUserWeight(p)
    \/ \E p \in Procs : HSI_CreateRisk(p)
    \/ \E p \in Procs : HSI_Clear(p)
    \/ \E p \in Procs : HSI_CreateEpicScore(p)
    \/ \E p \in Procs : HSI_RepoError(p)
    \/ \E p \in Procs : HRI_Create(p)
    \/ \E p \in Procs : TryCompleteRiskScoring(p)
    \/ \E p \in Procs : TryCompleteEpicScoring(p)

NextFlow ==
    \/ StepFlow
    \/ AllIdle /\ Tick
    \/ AllIdle /\ Show(ChatsConc)
    \/ /\ AllIdle
       /\ ops < MaxOpsFlow
       /\ \E p \in Procs, c \in ChatsConc :
             \/ \E text \in TextInputs : HSI_Touch(p, c, text)
             \/ \E sender \in FlowSenders, cmd \in FlowCommands :
                    commandHandler(p, c, sender, cmd)
             \/ \E sender \in FlowSenders, args \in AddUserArgs :
                    handleAddUser(p, c, sender, args)
             \/ \E sender \in FlowSenders, data \in FlowTokens :
                    handleCallbackQuery(p, c, sender, data)
                        /\ UNCHANGED pickers
             \/ \E u \in Users, data \in RiskImpTokens :
                    handleRiskImpact(p, c, u, data)

SpecFlow == InitFlow /\ [][NextFlow]_vars

\* the submissions of the scores of an epic in scoring by the two members
\* of its team, every update handled in its own goroutine
InitSubmit ==
    \E R \in {{}, {"r1"}} :
        InitScoring([u \in Users |->
                        [exists |-> TRUE, weight |-> 1,
                         role |-> IF u = "u1" THEN "dev" ELSE "qa",
                         roles |-> {IF u = "u1" THEN "dev" ELSE "qa"}]],
                    Users, R, [c \in Chats |-> NoSession])

\* the efforts the members type
EffortTextsSubmit == {5, 10}

NextSubmit ==
    \/ Show(ChatsConc)
    \/ \E p \in Procs : HSI_Clear(p)
    \/ \E p \in Procs : HSI_CreateEpicScore(p)
    \/ \E p \in Procs : TryCompleteRiskScoring(p)
    \/ \E p \in Procs : TryCompleteEpicScoring(p)
    \/ /\ ops < MaxOpsSubmit
       /\ \/ \E p \in Procs, c \in ChatsConc, text \in EffortTextsSubmit :
                 HSI_Get(p, c, text)
          \/ \E p \in Procs, u \in Users, r \in Risks, in \in RiskInputsConc :
                 HRI_CreateRiskScore(p, u, r, in)

SpecSubmit == InitSubmit /\ [][NextSubmit]_vars

\* the same conversation with every update handled in its own goroutine:
\* the add-user form of the chat waits for the last name when the replies
\* and the commands arrive
InitRace ==
    InitFlowWith([c \in Chats |->
                    IF c \in ChatsConc
                    THEN [NewSession EXCEPT !.step = StepAddUserLastName,
                                            !.username = "u2",
                                            !.firstName = "ann",
                                            !.left = SessionTTL]
                    ELSE NoSession])

NextRace ==
    \/ \E p \in Procs : sendReply(p)
    \/ \E p \in Procs : sendWithKeyboard(p)
    \/ \E p \in Procs : HAU_CreateUser(p)
    \/ \E p \in Procs : HSI_Switch(p)
    \/ \E p \in Procs : HSI_CreateUser(p)
    \/ Tick
    \/ /\ ops < MaxOpsRace
       /\ \E p \in Procs, c \in ChatsConc :
             \/ \E text \in TextInputs : HSI_Touch(p, c, text)
             \/ \E sender \in FlowSenders, cmd \in FlowCommands :
                    commandHandler(p, c, sender, cmd)
             \/ \E sender \in FlowSenders, args \in AddUserArgs :
                    handleAddUser(p, c, sender, args)

SpecRace == InitRace /\ [][NextRace]_vars

\* ------------------------------- handlers.go: /addadmin and /removeadmin
\* cfg.BotConfig.Admins is a slice shared by all handler goroutines with no
\* lock: a statement that reads and assigns it is a load and a store, and
\* other goroutines run between them. The slices are modelled by their
\* entries; goroutines that write one backing array at once are not
\* modelled beyond the interleaving of loads and stores.
\* slices.Index(s, v): the first index of v, here from 1, 0 for -1
Index(s, v) ==
    IF \E i \in DOMAIN s : s[i] = v
    THEN CHOOSE i \in DOMAIN s : s[i] = v /\ \A j \in 1..(i - 1) : s[j] # v
    ELSE 0

\* slices.Delete(s, idx, idx+1), for idx in range
Delete(s, idx) == SubSeq(s, 1, idx - 1) \o SubSeq(s, idx + 1, Len(s))

\* slices.Insert(s, idx, v), for idx <= len(s)
Insert(s, idx, v) == SubSeq(s, 1, idx - 1) \o <<v>> \o SubSeq(s, idx, Len(s))

\* a run-time panic (slice bounds or index out of range) in a handler
Panic(p) == Goto(p, "panic", loc[p])
NoPanic == \A p \in Procs : pc[p] # "panic"

\* the arguments of the two commands
AdminArgs == {"", "@u2", "u1", "admin"}

\* commandHandler: sessions.clear(chatID); case "addadmin": handleAddAdmin.
\* fail is the outcome of this handler's cfg.Write(), drawn when it starts
handleAddAdmin(p, c, sender, args, fail) ==
    /\ Begin(p)
    /\ SessionClear(c)
    /\ LET l == [LocIdle EXCEPT !.chatID = c]
       IN  IF ~isSuperAdmin(sender) THEN Reply(p, l, "denied")
           ELSE IF Str(args) = <<>> THEN Reply(p, l, "usage")
           ELSE Goto(p, "haa_append",
                     [l EXCEPT !.name = TrimPrefix(Str(args), Str("@")),
                               !.fail = fail])
    /\ UNCHANGED <<db, btnEpic, btnRisk, finalWrites, riskWrites, cfg, pickers>>

\* append(epicBot.cfg.BotConfig.Admins, username): the slice is read
HAA_Load(p) ==
    /\ pc[p] = "haa_append"
    /\ Goto(p, "haa_store",
            [loc[p] EXCEPT !.list = Append(admins, loc[p].name),
                           !.ilist = Append(adminsIdeal, loc[p].name)])
    /\ UNCHANGED <<db, sessions, btnEpic, btnRisk, ops, finalWrites,
                   riskWrites, cfg, pickers, calls>>

\* epicBot.cfg.BotConfig.Admins = append(...): the slice is assigned
HAA_Store(p) ==
    /\ pc[p] = "haa_store"
    /\ admins' = loc[p].list
    /\ adminsIdeal' = IF loc[p].fail THEN adminsIdeal ELSE loc[p].ilist
    /\ Goto(p, "haa_write", loc[p])
    /\ UNCHANGED <<db, sessions, btnEpic, btnRisk, ops, finalWrites,
                   riskWrites, pickers, calls>>

\* err := epicBot.cfg.Write(); if err != nil { roll back } else the reply
HAA_Write(p) ==
    /\ pc[p] = "haa_write"
    /\ IF loc[p].fail THEN Goto(p, "haa_rb", loc[p])
       ELSE Reply(p, loc[p], "added")
    /\ UNCHANGED <<db, sessions, btnEpic, btnRisk, ops, finalWrites,
                   riskWrites, cfg, pickers, calls>>

\* Admins[:len(Admins)-1]: the slice is read; panics when it is empty
HAA_RbLoad(p) ==
    /\ pc[p] = "haa_rb"
    /\ IF Len(admins) = 0 THEN Panic(p)
       ELSE Goto(p, "haa_rb_store",
                 [loc[p] EXCEPT !.list = SubSeq(admins, 1, Len(admins) - 1)])
    /\ UNCHANGED <<db, sessions, btnEpic, btnRisk, ops, finalWrites,
                   riskWrites, cfg, pickers, calls>>

\* epicBot.cfg.BotConfig.Admins = ...[:len-1]; the error reply
HAA_RbStore(p) ==
    /\ pc[p] = "haa_rb_store"
    /\ admins' = loc[p].list
    /\ Reply(p, loc[p], "error")
    /\ UNCHANGED <<db, sessions, btnEpic, btnRisk, ops, finalWrites,
                   riskWrites, pickers, adminsIdeal, calls>>

\* commandHandler: sessions.clear(chatID); case "removeadmin"
handleRemoveAdmin(p, c, sender, args, fail) ==
    /\ Begin(p)
    /\ SessionClear(c)
    /\ LET l == [LocIdle EXCEPT !.chatID = c]
       IN  IF ~isSuperAdmin(sender) THEN Reply(p, l, "denied")
           ELSE IF Str(args) = <<>> THEN Reply(p, l, "usage")
           ELSE Goto(p, "hra_index",
                     [l EXCEPT !.name = TrimPrefix(Str(args), Str("@")),
                               !.fail = fail])
    /\ UNCHANGED <<db, btnEpic, btnRisk, finalWrites, riskWrites, cfg, pickers>>

\* idx := slices.Index(Admins, username); if idx == -1 { reply; return }.
\* In the list without the failed commands the command finds its own index;
\* when the handler returns here, that list loses the entry in this step.
HRA_Index(p) ==
    /\ pc[p] = "hra_index"
    /\ LET idx == Index(admins, loc[p].name)
           iidx == IF loc[p].fail THEN 0 ELSE Index(adminsIdeal, loc[p].name)
       IN  IF idx = 0
           THEN /\ Reply(p, loc[p], "notfound")
                /\ adminsIdeal' = IF iidx = 0 THEN adminsIdeal
                                  ELSE Delete(adminsIdeal, iidx)
           ELSE /\ Goto(p, "hra_delete",
                        [loc[p] EXCEPT !.idx = idx, !.iidx = iidx])
                /\ UNCHANGED adminsIdeal
    /\ UNCHANGED <<db, sessions, btnEpic, btnRisk, ops, finalWrites,
                   riskWrites, pickers, admins, calls>>

\* removed := Admins[idx]; slices.Delete(Admins, idx, idx+1): the slice is
\* read; panics when idx is out of range by now
HRA_Load(p) ==
    /\ pc[p] = "hra_delete"
    /\ IF loc[p].idx > Len(admins) THEN Panic(p)
       ELSE Goto(p, "hra_store",
                 [loc[p] EXCEPT
                    !.removed = admins[loc[p].idx],
                    !.list = Delete(admins, loc[p].idx),
                    !.ilist = IF loc[p].iidx = 0
                                 \/ loc[p].iidx > Len(adminsIdeal)
                              THEN adminsIdeal
                              ELSE Delete(adminsIdeal, loc[p].iidx)])
    /\ UNCHANGED <<db, sessions, btnEpic, btnRisk, ops, finalWrites,
                   riskWrites, cfg, pickers, calls>>

\* epicBot.cfg.BotConfig.Admins = slices.Delete(...): the slice is assigned
HRA_Store(p) ==
    /\ pc[p] = "hra_store"
    /\ admins' = loc[p].list
    /\ adminsIdeal' = IF loc[p].fail THEN adminsIdeal ELSE loc[p].ilist
    /\ Goto(p, "hra_write", loc[p])
    /\ UNCHANGED <<db, sessions, btnEpic, btnRisk, ops, finalWrites,
                   riskWrites, pickers, calls>>

\* if err := epicBot.cfg.Write(); err != nil { roll back } else the reply
HRA_Write(p) ==
    /\ pc[p] = "hra_write"
    /\ IF loc[p].fail THEN Goto(p, "hra_rb", loc[p])
       ELSE Reply(p, loc[p], "removed")
    /\ UNCHANGED <<db, sessions, btnEpic, btnRisk, ops, finalWrites,
                   riskWrites, cfg, pickers, calls>>

\* slices.Insert(Admins, idx, removed): the slice is read; panics when idx
\* is beyond its length
HRA_RbLoad(p) ==
    /\ pc[p] = "hra_rb"
    /\ IF loc[p].idx - 1 > Len(admins) THEN Panic(p)
       ELSE Goto(p, "hra_rb_store",
                 [loc[p] EXCEPT
                    !.list = Insert(admins, loc[p].idx, loc[p].removed)])
    /\ UNCHANGED <<db, sessions, btnEpic, btnRisk, ops, finalWrites,
                   riskWrites, cfg, pickers, calls>>

\* epicBot.cfg.BotConfig.Admins = slices.Insert(...); the error reply
HRA_RbStore(p) ==
    /\ pc[p] = "hra_rb_store"
    /\ admins' = loc[p].list
    /\ Reply(p, loc[p], "error")
    /\ UNCHANGED <<db, sessions, btnEpic, btnRisk, ops, finalWrites,
                   riskWrites, pickers, adminsIdeal, calls>>

\* the bot with the two commands, every update in its own goroutine; a
\* panic ends the program
NextConfig ==
    \/ \E p \in Procs : NoPanic /\ sendReply(p)
    \/ \E p \in Procs : NoPanic /\ HAA_Load(p)
    \/ \E p \in Procs : NoPanic /\ HAA_Store(p)
    \/ \E p \in Procs : NoPanic /\ HAA_Write(p)
    \/ \E p \in Procs : NoPanic /\ HAA_RbLoad(p)
    \/ \E p \in Procs : NoPanic /\ HAA_RbStore(p)
    \/ \E p \in Procs : NoPanic /\ HRA_Index(p)
    \/ \E p \in Procs : NoPanic /\ HRA_Load(p)
    \/ \E p \in Procs : NoPanic /\ HRA_Store(p)
    \/ \E p \in Procs : NoPanic /\ HRA_Write(p)
    \/ \E p \in Procs : NoPanic /\ HRA_RbLoad(p)
    \/ \E p \in Procs : NoPanic /\ HRA_RbStore(p)
    \/ /\ NoPanic
       /\ ops < MaxOpsConfig
       /\ \E p \in Procs, sender \in FlowSenders, args \in AdminArgs,
             fail \in BOOLEAN :
             \/ handleAddAdmin(p, "c1", sender, args, fail)
             \/ handleRemoveAdmin(p, "c1", sender, args, fail)

SpecConfig == InitAdmin /\ [][NextConfig]_vars

\* ------------------------------------------ the calculations on their own
\* a database in which scoring is under way: users of any weight (0 is
\* allowed by the CHECK on users.weight), some effort and risk scores stored
Weights == {0, 1, 3}
EffortRows(u, role) ==
    {{}} \cup {{[user |-> u, role |-> role, score |-> v]} : v \in {5, 10}}
RiskRows(u) ==
    {{}} \cup {{[user |-> u, probability |-> in[1], impact |-> in[2]]} :
                  in \in {<<1, 3>>, <<4, 3>>}}

InitCalc ==
    \E w1, w2 \in Weights, role2 \in Roles :
    \E e1 \in EffortRows("u1", "dev"), e2 \in EffortRows("u2", role2),
       r1 \in RiskRows("u1"), r2 \in RiskRows("u2") :
        /\ users = [u \in Users |->
                      IF u = "u1"
                      THEN [exists |-> TRUE, weight |-> w1, role |-> "dev",
                            roles |-> {"dev"}]
                      ELSE [exists |-> TRUE, weight |-> w2, role |-> role2,
                            roles |-> {role2}]]
        /\ user_teams = Users
        /\ epics = [e \in Epics |-> [exists |-> TRUE,
                                      status |-> StatusScoring,
                                      final_score |-> Nil]]
        /\ risks = [r \in Risks |-> [exists |-> r = "r1", epic |-> "e1",
                                      status |-> IF r = "r1" THEN StatusScoring
                                                 ELSE StatusNew,
                                      weighted_score |-> NilQ]]
        /\ epic_scores = [e \in Epics |-> e1 \cup e2]
        /\ risk_scores = [r \in Risks |-> IF r = "r1" THEN r1 \cup r2 ELSE {}]
        /\ epic_role_scores = [e \in Epics |-> NoFn]
        /\ sessions = [c \in Chats |-> NoSession]
        /\ btnEpic = {}
        /\ btnRisk = {}
        /\ pc = [p \in Procs |-> "idle"]
        /\ loc = [p \in Procs |-> LocIdle]
        /\ ops = 0
        /\ finalWrites = [e \in Epics |-> 0]
        /\ riskWrites = [r \in Risks |-> 0]
        /\ admins = InitAdmins
        /\ adminsIdeal = InitAdmins
        /\ pickers = NoPickers
        /\ calls = <<>>

\* the weighted scores passed to RiskCoefficient: the halves in 0..20 and
\* the fifths around 8.6
ScoreInputs ==
    {Q(n, 2) : n \in 0..40} \cup {Q(n, 5) : n \in 41..44}

\* avg, err := s.CalculateEpicRoleAvg(ctx, epicID, roleID)
Call_CalculateEpicRoleAvg(p, e, roleID) ==
    /\ pc[p] = "idle"
    /\ Goto(p, "avg_done",
            [loc[p] EXCEPT !.epicID = e, !.roleID = roleID,
                           !.avg = CalculateEpicRoleAvg(epic_scores[e], roleID)])
    /\ UNCHANGED <<db, sessions, btnEpic, btnRisk, ops, finalWrites,
                   riskWrites, cfg, pickers, calls>>

\* weightedScore, err := s.CalculateRiskWeightedScore(ctx, riskID)
Call_CalculateRiskWeightedScore(p, r) ==
    /\ pc[p] = "idle"
    /\ Goto(p, "ws_done",
            [loc[p] EXCEPT !.riskID = r,
                           !.weightedScore =
                               CalculateRiskWeightedScore(risk_scores[r])])
    /\ UNCHANGED <<db, sessions, btnEpic, btnRisk, ops, finalWrites,
                   riskWrites, cfg, pickers, calls>>

\* coeff := scoring.RiskCoefficient(weightedScore)
Call_RiskCoefficient(p, weightedScore) ==
    /\ pc[p] = "idle"
    /\ Goto(p, "coeff_done",
            [loc[p] EXCEPT !.weightedScore = weightedScore,
                           !.avg = RiskCoefficient(weightedScore)])
    /\ UNCHANGED <<db, sessions, btnEpic, btnRisk, ops, finalWrites,
                   riskWrites, cfg, pickers, calls>>

\* the caller has the result
Call_Return(p) ==
    /\ pc[p] \in {"avg_done", "ws_done", "coeff_done"}
    /\ Return(p)
    /\ UNCHANGED <<db, sessions, btnEpic, btnRisk, ops, finalWrites,
                   riskWrites, cfg, pickers, calls>>

NextCalc ==
    \/ \E e \in Epics, roleID \in Roles :
           Call_CalculateEpicRoleAvg("p1", e, roleID)
    \/ \E r \in {"r1"} : Call_CalculateRiskWeightedScore("p1", r)
    \/ \E x \in ScoreInputs : Call_RiskCoefficient("p1", x)
    \/ Call_Return("p1")

SpecCalc == InitCalc /\ [][NextCalc]_vars

\* the operations one after the other, with repository calls that may fail
NextFail ==
    \/ NextSeq
    \/ \E p \in Procs : TCE_RepoError(p)
    \/ \E p \in Procs : TCR_RepoError(p)

SpecFail == Init /\ [][NextFail]_vars

\* ------------------------------------------------------------- properties
\* C1: under any interleaving of effort submissions, risk submissions and
\* the completion checks they trigger, the final score of an epic is
\* written at most once.
C1_FinalScoreWrittenAtMostOnce == \A e \in Epics : finalWrites[e] <= 1

\* C2: of two calls of TryCompleteEpicScoring in a row, the first of which
\* completed the epic (effort quorum reached, all risks SCORED), the second
\* returns at the status gate and runs no writing statement; the final
\* score was written once and the epic is SCORED.
C2_SecondCallIsNoOp ==
    (Len(calls) = 2 /\ calls[1].out = "completed") =>
        /\ calls[2].out = "gate"
        /\ ~calls[2].wrote
        /\ \A e \in Epics : finalWrites[e] = 1 /\ epics[e].status = StatusScored

\* C2, witness: a call completed the epic, which has a scored risk, and the
\* next call returned at the gate
C2_Witness ==
    /\ Len(calls) = 2
    /\ calls[1].out = "completed"
    /\ calls[2].out = "gate"
    /\ finalWrites["e1"] = 1
    /\ \E r \in RisksOf("e1") : risks[r].status = StatusScored

\* C3: the result of a risk is computed and persisted exactly once: after
\* TryCompleteRiskScoring stored the weighted score, no later call writes
\* the weighted score or status of that risk again.
C3_RiskResultWrittenOnce == \A r \in Risks : riskWrites[r] <= 1

\* C4: TryCompleteEpicScoring sets an epic SCORED only if, in the state it
\* read, the number of effort scores is at least the number of team members
\* and every risk of the epic is SCORED.
C4_ReadyToSet(p) ==
    /\ pc[p] = "tce_set"
    /\ loc[p].count >= loc[p].teamMembers
    /\ \A r \in DOMAIN loc[p].risks : loc[p].risks[r].status = StatusScored

C4_CompletesOnlyWhenReady ==
    /\ [](\A p \in Procs : pc[p] = "tce_set" => C4_ReadyToSet(p))
    /\ [][\A e \in Epics :
            (epics[e].status # StatusScored /\ epics'[e].status = StatusScored)
            => \E p \in Procs : C4_ReadyToSet(p) /\ loc[p].epicID = e]_vars

\* C4, witness: a call is about to set the final score of an epic of a team
\* with members, having read a risk
C4_Witness ==
    \E p \in Procs : /\ C4_ReadyToSet(p)
                     /\ loc[p].teamMembers >= 1
                     /\ DOMAIN loc[p].risks # {}

\* C5: when an epic completes, the persisted final score is
\* round(B * product of c(r)): B the sum over the roles with an effort score
\* of the role's weighted average, c(r) the coefficient of each risk r of
\* the epic.
C5_RoleAvg(e, role) ==
    LET of == {sc \in epic_scores[e] : sc.role = role}
    IN  Q(SumF([sc \in of |-> sc.score * users[sc.user].weight], of),
          SumF([sc \in of |-> users[sc.user].weight], of))

C5_Base(e) ==
    LET with == {sc.role : sc \in epic_scores[e]}
        avg(role) == IF role \in with THEN C5_RoleAvg(e, role) ELSE QInt(0)
    IN  QAdd(avg("dev"), avg("qa"))

C5_Coefficient(r, e) ==
    IF r \in RisksOf(e) THEN RiskCoefficient(risks[r].weighted_score)
    ELSE QInt(1)

C5_Expected(e) ==
    Round(QMul(C5_Base(e),
               QMul(C5_Coefficient("r1", e), C5_Coefficient("r2", e))))

C5_FinalScoreFormula ==
    [][\A p \in Procs :
         (pc[p] = "tce_set" /\ pc'[p] = "idle")
         => epics'[loc[p].epicID].final_score = C5_Expected(loc[p].epicID)]_vars

\* C5, witness: role averages 10 (dev) and 5 (qa), two scored risks with
\* coefficients 1.05 and 1.20, final score round(15 * 1.05 * 1.20) = 19
C5_Witness ==
    /\ epics["e1"].status = StatusScored
    /\ epics["e1"].final_score = 19
    /\ DOMAIN epic_role_scores["e1"] = {"dev", "qa"}
    /\ epic_role_scores["e1"]["dev"] = QInt(10)
    /\ epic_role_scores["e1"]["qa"] = QInt(5)
    /\ RisksOf("e1") = {"r1", "r2"}
    /\ {RiskCoefficient(risks[r].weighted_score) : r \in Risks}
           = {Q(105, 100), Q(120, 100)}

\* C6: whenever an epic or a risk is marked SCORED, every member of the
\* owning team has a stored score for it.
C6_QuorumIsEveryMember ==
    [][/\ \A e \in Epics :
            (epics[e].status # StatusScored /\ epics'[e].status = StatusScored)
            => user_teams \subseteq {sc.user : sc \in epic_scores[e]}
       /\ \A r \in Risks :
            (risks[r].status # StatusScored /\ risks'[r].status = StatusScored)
            => user_teams \subseteq {rs.user : rs \in risk_scores[r]}]_vars

\* C7: the status of an epic only changes NEW -> SCORING or
\* SCORING -> SCORED.
C7_EpicStatusMonotonic ==
    [][\A e \in Epics :
         epics'[e].status # epics[e].status
         => <<epics[e].status, epics'[e].status>> \in
                {<<StatusNew, StatusScoring>>, <<StatusScoring, StatusScored>>}]_vars

\* C8: the status of a risk only changes NEW -> SCORING or
\* SCORING -> SCORED.
C8_RiskStatusMonotonic ==
    [][\A r \in Risks :
         (risks[r].exists /\ risks'[r].status # risks[r].status)
         => <<risks[r].status, risks'[r].status>> \in
                {<<StatusNew, StatusScoring>>, <<StatusScoring, StatusScored>>}]_vars

\* C9: an epic has a final score only if it is SCORED, and a risk has a
\* weighted score only if it is SCORED.
C9_ScoreOnlyWhenScored ==
    /\ \A e \in Epics :
         epics[e].final_score # Nil => epics[e].status = StatusScored
    /\ \A r \in Risks :
         risks[r].weighted_score # NilQ => risks[r].status = StatusScored

\* C10: a call of TryCompleteEpicScoring that finds the effort quorum
\* reached and a risk not SCORED returns having run no writing statement.
C10_WaitingCallWritesNothing ==
    \A i \in 1..Len(calls) : calls[i].out = "waitrisk" => ~calls[i].wrote

\* C11: a call of TryCompleteEpicScoring in which a repository call fails
\* returns the error having committed nothing: it has run no writing
\* statement.
C11_FailedCallWritesNothing ==
    \A i \in 1..Len(calls) : calls[i].out = "error" => ~calls[i].wrote

\* C12: a risk becomes SCORED together with its weighted score, and when the
\* operation that completed it returns, an epic whose effort quorum holds and
\* whose risks are all SCORED is SCORED with a final score.
C12_Cascaded(p) ==
    /\ loc[p].riskID # "none"
    /\ pc[p] \in TCE_Labels
    /\ pc'[p] = "idle"

C12_EpicReady(e) ==
    /\ Cardinality(epic_scores'[e]) >= Cardinality(user_teams')
    /\ \A r \in Risks :
         (risks'[r].exists /\ risks'[r].epic = e)
         => risks'[r].status = StatusScored

C12_RiskCompletionCascades ==
    [][/\ \A r \in Risks :
            (risks[r].status # StatusScored /\ risks'[r].status = StatusScored)
            => risks'[r].weighted_score # NilQ
       /\ \A r \in Risks :
            (risks[r].status # StatusScored /\ risks'[r].status = StatusScored)
            => \E p \in Procs : pc'[p] = "tce_get" /\ loc'[p].epicID = risks[r].epic
       /\ \A p \in Procs :
            (C12_Cascaded(p) /\ C12_EpicReady(loc[p].epicID))
            => /\ epics'[loc[p].epicID].status = StatusScored
               /\ epics'[loc[p].epicID].final_score # Nil]_vars

\* C12, witness: the submission that completed the last risk has returned
\* and the epic is SCORED with its final score, written by the cascade
C12_Witness ==
    /\ AllIdle
    /\ Len(calls) = 1
    /\ calls[1].out = "completed"
    /\ \E r \in Risks : riskWrites[r] = 1
    /\ epics["e1"].status = StatusScored
    /\ epics["e1"].final_score # Nil

\* C13: there is at most one effort score per (epic, user) and one risk
\* score per (risk, user): a submission adds a row only for a user without
\* one, and otherwise replaces the user's row, so the count read by the
\* quorum check does not increase.
C13_Submitters(rows) == {x.user : x \in rows}

C13_OnePerUser(rows) == \A x, y \in rows : x.user = y.user => x = y

C13_CountFollowsSubmitters(old, new) ==
    Cardinality(new) - Cardinality(old)
        = Cardinality(C13_Submitters(new) \ C13_Submitters(old))

C13_OneScorePerUser ==
    /\ [](/\ \A e \in Epics : C13_OnePerUser(epic_scores[e])
          /\ \A r \in Risks : C13_OnePerUser(risk_scores[r]))
    /\ [][/\ \A e \in Epics :
               C13_CountFollowsSubmitters(epic_scores[e], epic_scores'[e])
          /\ \A r \in Risks :
               C13_CountFollowsSubmitters(risk_scores[r], risk_scores'[r])]_vars

\* C13, witness: u1 has submitted effort 5 (the role aggregate computed from
\* it) and then effort 10 from the prompt of the other chat: one row, with
\* the new value
C13_Witness ==
    /\ user_teams = {"u1"}
    /\ "dev" \in DOMAIN epic_role_scores["e1"]
    /\ epic_role_scores["e1"]["dev"] = QInt(5)
    /\ epic_scores["e1"] = {[user |-> "u1", role |-> "dev", score |-> 10]}
    /\ \E p \in Procs : pc[p] = "tce_get"

\* C14: CalculateEpicRoleAvg and CalculateRiskWeightedScore return
\* sum(value * weight) / sum(weight) over the scores of the target, and 0
\* when there is no score or the total weight is 0.
C14_IsWeightedAvg(q, value, has) ==
    LET w(u) == IF has[u] THEN users[u].weight ELSE 0
        sumVW == value["u1"] * w("u1") + value["u2"] * w("u2")
        sumW == w("u1") + w("u2")
    IN  IF sumW = 0 THEN q = [n |-> 0, d |-> 1]
        ELSE q.d > 0 /\ q.n * sumW = sumVW * q.d

C14_EffortOf(e, roleID, u) ==
    {sc \in epic_scores[e] : sc.user = u /\ sc.role = roleID}

C14_RiskOf(r, u) == {rs \in risk_scores[r] : rs.user = u}

C14_WeightedAverages ==
    \A p \in Procs :
      /\ pc[p] = "avg_done" =>
           C14_IsWeightedAvg(
               loc[p].avg,
               [u \in Users |->
                   SumF([sc \in C14_EffortOf(loc[p].epicID, loc[p].roleID, u)
                           |-> sc.score],
                        C14_EffortOf(loc[p].epicID, loc[p].roleID, u))],
               [u \in Users |->
                   C14_EffortOf(loc[p].epicID, loc[p].roleID, u) # {}])
      /\ pc[p] = "ws_done" =>
           C14_IsWeightedAvg(
               loc[p].weightedScore,
               [u \in Users |->
                   SumF([rs \in C14_RiskOf(loc[p].riskID, u)
                           |-> rs.probability * rs.impact],
                        C14_RiskOf(loc[p].riskID, u))],
               [u \in Users |-> C14_RiskOf(loc[p].riskID, u) # {}])

\* C14, witness: efforts 10 (weight 3) and 5 (weight 1) of one role give
\* 35/4; and a call over scores whose total weight is 0 has returned 0
C14_Witness ==
    \E p \in Procs :
        /\ pc[p] = "avg_done"
        /\ users["u1"].weight = 3 /\ users["u2"].weight = 1
        /\ epic_scores["e1"] = {[user |-> "u1", role |-> "dev", score |-> 10],
                                [user |-> "u2", role |-> "dev", score |-> 5]}
        /\ loc[p].roleID = "dev"
        /\ loc[p].avg = [n |-> 35, d |-> 4]

C14_WitnessZero ==
    \E p \in Procs :
        /\ pc[p] = "ws_done"
        /\ risk_scores["r1"] # {}
        /\ \A rs \in risk_scores["r1"] : users[rs.user].weight = 0
        /\ loc[p].weightedScore = [n |-> 0, d |-> 1]

\* C15: RiskCoefficient is a non-decreasing step function of the weighted
\* score rounded to the nearest integer, halves up: 1.30 from 12.5, 1.20 from
\* 8.5, 1.10 from 4.5, 1.05 below; 4 -> 1.05, 5 -> 1.10, 8.6 -> 1.20,
\* 13 -> 1.30, 20 -> 1.30.
C15_AtLeast(x, halves) == 2 * x.n >= halves * x.d

C15_Table(x) ==
    IF C15_AtLeast(x, 25) THEN [n |-> 13, d |-> 10]
    ELSE IF C15_AtLeast(x, 17) THEN [n |-> 6, d |-> 5]
    ELSE IF C15_AtLeast(x, 9) THEN [n |-> 11, d |-> 10]
    ELSE [n |-> 21, d |-> 20]

C15_RiskCoefficientTable ==
    /\ \A p \in Procs :
         pc[p] = "coeff_done" => loc[p].avg = C15_Table(loc[p].weightedScore)
    /\ \A p \in Procs, b \in ScoreInputs :
         /\ pc[p] = "coeff_done"
         /\ loc[p].weightedScore.n * b.d <= b.n * loc[p].weightedScore.d
         => LET cb == RiskCoefficient(b)
            IN  loc[p].avg.n * cb.d <= cb.n * loc[p].avg.d
    /\ RiskCoefficient([n |-> 4, d |-> 1]) = [n |-> 21, d |-> 20]
    /\ RiskCoefficient([n |-> 5, d |-> 1]) = [n |-> 11, d |-> 10]
    /\ RiskCoefficient([n |-> 43, d |-> 5]) = [n |-> 6, d |-> 5]
    /\ RiskCoefficient([n |-> 13, d |-> 1]) = [n |-> 13, d |-> 10]
    /\ RiskCoefficient([n |-> 20, d |-> 1]) = [n |-> 13, d |-> 10]

\* C15, witness: RiskCoefficient(8.6) has returned 1.20
C15_Witness ==
    \E p \in Procs :
        /\ pc[p] = "coeff_done"
        /\ loc[p].weightedScore = [n |-> 43, d |-> 5]
        /\ loc[p].avg = [n |-> 6, d |-> 5]

\* C16: every token a picker puts on an inline keyboard, whatever the
\* domain, the action and the identifiers, is at most 64 bytes long.
C16_TokensFitCallbackData ==
    \A p \in Procs : \A t \in loc[p].rows : Len(t) <= 64

\* C17: decoding "<prefix><action>_<id>", and "<prefix><action>_<id1>_<id2>"
\* for the risk tokens, gives back the action (also one with underscores)
\* and the identifiers that were encoded.
C17_Domains ==
    {"adm_user_", "adm_role_", "adm_team_", "adm_epic_", "adm_confirm_"}

C17_Actions ==
    {"assignrole", "unassignrole", "assignteam", "removefromteam",
     "deleteuser", "renameuser", "changerate", "addepic", "list", "addrisk",
     "startscore", "results", "epicstatus", "deleteepic", "deleterisk",
     "start_score"}

C17_Decoded(p) ==
    pc[p] # "idle" /\ loc[p].data # <<>> /\ loc[p].reply # "denied"

\* the encodings: token, action, identifiers
C17_Encoded ==
    {[token |-> Sprintf2(d, a, UUIDs[x]), action |-> Str(a),
      id |-> UUIDs[x], id2 |-> <<>>] :
        d \in C17_Domains, a \in C17_Actions, x \in DOMAIN UUIDs}
    \cup {[token |-> Sprintf3("adm_risk_", a, UUIDs[x], UUIDs[y]),
           action |-> Str(a), id |-> UUIDs[x], id2 |-> UUIDs[y]] :
             a \in C17_Actions, x \in DOMAIN UUIDs, y \in DOMAIN UUIDs}

\* the encoding a token came from (the encoding is injective)
C17_EncodingOf ==
    [t \in {r.token : r \in C17_Encoded} |->
        CHOOSE r \in C17_Encoded : r.token = t]

C17_TokenRoundTrip ==
    \A p \in Procs :
        (C17_Decoded(p) /\ loc[p].data \in DOMAIN C17_EncodingOf) =>
            LET t == C17_EncodingOf[loc[p].data]
            IN  /\ loc[p].action = t.action
                /\ loc[p].idStr = t.id
                /\ loc[p].id2Str = t.id2

\* C17, witness: a token whose action holds an underscore has been decoded
C17_Witness ==
    \E p \in Procs :
        /\ C17_Decoded(p)
        /\ loc[p].data = Sprintf2("adm_epic_", "start_score", UUIDs["e1"])
        /\ loc[p].action = Str("start_score")
        /\ loc[p].idStr = UUIDs["e1"]

C17_WitnessTwoIds ==
    \E p \in Procs :
        /\ C17_Decoded(p)
        /\ loc[p].data =
               Sprintf3("adm_risk_", "deleterisk", UUIDs["e1"], UUIDs["r1"])
        /\ loc[p].action = Str("deleterisk")
        /\ loc[p].idStr = UUIDs["e1"]
        /\ loc[p].id2Str = UUIDs["r1"]

\* the grammar of a token behind its prefix: action "_" id36, and
\* action "_" id36 "_" id36 behind "adm_risk_"; the action is not empty
C18_OneID(rest) ==
    LET n == Len(rest) - 37
    IN  /\ n >= 1
        /\ rest[n + 1] = "_"
        /\ ParseOK(SubSeq(rest, n + 2, n + 37))

C18_TwoIDs(rest) ==
    LET n == Len(rest) - 74
    IN  /\ n >= 1
        /\ rest[n + 1] = "_"
        /\ ParseOK(SubSeq(rest, n + 2, n + 37))
        /\ rest[n + 38] = "_"
        /\ ParseOK(SubSeq(rest, n + 39, n + 74))

C18_Malformed(data) ==
    \/ \E d \in C17_Domains :
          HasPrefix(data, Str(d)) /\ ~C18_OneID(TrimPrefix(data, Str(d)))
    \/ /\ HasPrefix(data, Str("adm_risk_"))
       /\ ~C18_TwoIDs(TrimPrefix(data, Str("adm_risk_")))

C18_MalformedInputs == {t \in TokenInputs : C18_Malformed(t)}

C18_Rejections == {"malformed", "parse_error", "unknown_action"}

\* C18: a token that does not match the grammar behind its prefix is
\* answered with a rejection, and no step of its handling changes the
\* database or the sessions.
C18_MalformedRejected ==
    [][\A p \in Procs :
          (pc'[p] # "idle" /\ loc'[p].data \in C18_MalformedInputs)
          => /\ pc'[p] = "reply"
             /\ loc'[p].reply \in C18_Rejections
             /\ db' = db
             /\ sessions' = sessions]_vars

\* the tokens of the two-entity actions: they name the role or the team
C19_Tokens ==
    {Sprintf2("adm_role_", a, UUIDs[x]) :
        a \in {"assignrole", "unassignrole"}, x \in DOMAIN UUIDs}
    \cup {Sprintf2("adm_team_", a, UUIDs[x]) :
             a \in {"assignteam", "removefromteam"}, x \in DOMAIN UUIDs}

\* the chat has a session that has not expired and that holds a user
C19_Pending(c) ==
    /\ sessions[c] # NoSession
    /\ sessions[c].left > 0
    /\ sessions[c].pendingUserID # "none"

C19_Applying(p) == pc[p] \in {"har_set", "har_apply", "hat_set", "hat_apply"}

C20_Expired(c) == sessions[c] # NoSession /\ sessions[c].left = 0

\* C20: while the entry of a chat has expired without being cleared, a text
\* message in the chat runs no step and leaves the entry alone, a role or
\* team token of a two-entity action is answered "session expired", and no
\* update of the chat starts a write that continues the flow.
C20_ExpiredIsAbsent ==
    [][\A c \in Chats :
          (C20_Expired(c) /\ AllIdle)
          => /\ db' = db
             /\ \A p \in Procs :
                   loc'[p].chatID = c
                   => /\ pc'[p] \notin {"hsi_risk", "har_set", "har_apply",
                                        "hat_set", "hat_apply"}
                      /\ (pc'[p] = "reply" /\ loc'[p].data \in C19_Tokens)
                         => loc'[p].reply = "expired"
             /\ (pc' = pc /\ ops' # ops) => sessions'[c] = sessions[c]]_vars

\* C20, witness: the picker of the roles has stashed the user, the session
\* has expired and is still stored, and the role token is answered
\* "session expired"
C20_Witness ==
    \E p \in Procs :
        /\ pc[p] = "reply"
        /\ loc[p].data = Sprintf2("adm_role_", "unassignrole", UUIDs["qa"])
        /\ loc[p].reply = "expired"
        /\ C20_Expired(loc[p].chatID)
        /\ sessions[loc[p].chatID].pendingUserID = "u2"

\* C21: a text message that finds a session of its chat extends the expiry
\* of that session to a full time to live before the step is processed (the
\* step runs on the touched entry), and the touch changes neither the step
\* nor the data of the session.
C21_TouchKeepsStepAndData ==
    [][\A p \in Procs :
          /\ (pc[p] = "idle" /\ pc'[p] = "hsi_switch")
             => LET c == loc'[p].chatID
                IN  /\ SessionFound(c)
                    /\ loc'[p].sess = sessions[c]
                    /\ sessions'[c] = [sessions[c] EXCEPT !.left = SessionTTL]
          /\ pc[p] = "hsi_switch"
             => /\ sessions[loc[p].chatID].left = SessionTTL
                /\ [sessions[loc[p].chatID] EXCEPT !.left = 0]
                       = [loc[p].sess EXCEPT !.left = 0]]_vars

\* C21, witness: the first name of the add-user form arrives one tick before
\* the session expires, and the step is about to run on the entry with its
\* full time to live and the username typed before
C21_Witness ==
    \E p \in Procs :
        /\ pc[p] = "hsi_switch"
        /\ loc[p].sess.step = StepAddUserFirstName
        /\ loc[p].sess.username = "u2"
        /\ loc[p].sess.left = 1
        /\ sessions[loc[p].chatID] =
               [loc[p].sess EXCEPT !.left = SessionTTL]

\* C22: a command discards the session of its chat before it is dispatched,
\* and the flow it has discarded stays discarded: while a command that opens
\* no session is being answered (its picker is about to be sent) and the
\* chat has no session, no step of a reply handler of that chat stores a
\* session, so that a following get finds nothing and a following reply
\* runs no step of the old flow.
C22_DiscardedFlowStaysDiscarded ==
    [][\A q \in Procs, p \in Procs :
          (/\ pc[q] = "send_kb" /\ loc[q].data = <<>>
           /\ pc'[q] = "send_kb"
           /\ pc[p] = "hsi_switch"
           /\ loc[p].chatID = loc[q].chatID
           /\ sessions[loc[q].chatID] = NoSession)
              => sessions'[loc[q].chatID] = NoSession]_vars

\* the steps that end a flow, and a handler that has handled such a step
\* with a reply that passed the validation
C23_TerminalSteps ==
    {StepAddUserWeight, StepRenameUserLastName, StepChangeRateWeight,
     StepAddEpicDesc, StepAddRiskDesc, StepScoreEpicEffort}
C23_Handled(p) ==
    /\ loc[p].sess.step \in C23_TerminalSteps
    /\ \/ pc[p] \in TCE_Labels
       \/ pc[p] = "reply" /\ loc[p].reply # "invalid"

\* the write of the terminal step of handler p is in the database after
\* the step
C23_Written(p) ==
    LET u == loc[p].userID
        e == loc[p].epicID
    IN  \/ pc[p] = "hsi_create_user" /\ ~users[u].exists /\ users'[u].exists
        \/ pc[p] = "hsi_weight" /\ users'[u].weight = loc[p].weight
        \/ pc[p] = "hsi_risk" /\ risks' # risks
        \/ /\ pc[p] = "hsi_create"
           /\ \E sc \in epic_scores'[e] :
                 sc.user = loc[p].sess.username /\ sc.score = loc[p].score
        \/ pc[p] = "hsi_rename" /\ loc'[p].reply = "done"

\* C23: once the terminal step of a flow (create user, rename user, change
\* weight, create epic, create risk, store effort score) was handled with a
\* reply that passed the validation, the chat has no session, whether the
\* write went through or failed; and the call of the repository either
\* writes or the caller is sent the error reply.
C23_TerminalStepClearsSession ==
    [][\A p \in Procs :
          /\ C23_Handled(p) => sessions[loc[p].chatID] = NoSession
          /\ (/\ pc[p] \in {"hsi_create_user", "hsi_rename", "hsi_weight",
                            "hsi_risk", "hsi_create"}
              /\ pc'[p] # pc[p])
             => \/ C23_Written(p)
                \/ pc'[p] = "reply" /\ loc'[p].reply = "error"]_vars

\* C23, witness: the weight of the add-user form was valid, CreateUser
\* failed, the error reply is about to be sent and the session is gone
C23_Witness ==
    \E p \in Procs :
        /\ pc[p] = "reply"
        /\ loc[p].sess.step = StepAddUserWeight
        /\ loc[p].reply = "error"
        /\ ~users[loc[p].userID].exists
        /\ sessions[loc[p].chatID] = NoSession

\* C23, witness: the effort was stored and the session is gone
C23_WitnessStored ==
    \E p \in Procs :
        /\ pc[p] = "tce_get"
        /\ loc[p].sess.step = StepScoreEpicEffort
        /\ epic_scores[loc[p].epicID] # {}
        /\ sessions[loc[p].chatID] = NoSession

\* the text is a number outside lo..hi
C24_OutOfRange(s, lo, hi) ==
    Atoi(s).ok /\ (Atoi(s).val < lo \/ Atoi(s).val > hi)

\* the fields of a "riskimp_" token
C24_Fields(data) == Split(TrimPrefix(data, Str("riskimp_")))

\* C24: a reply with a weight outside 0..100 (add-user and change-weight
\* forms) and a token with a probability or an impact outside 1..4 are
\* answered with the validation error, no row of the database changes, and
\* the session keeps its step and its data; nothing changes either while the
\* error is sent.
C24_ValidationErrorMutatesNothing ==
    [][\A p \in Procs :
          /\ (/\ pc[p] = "hsi_switch"
              /\ loc[p].sess.step \in {StepAddUserWeight, StepChangeRateWeight}
              /\ C24_OutOfRange(Str(loc[p].text), 0, 100))
             => /\ pc'[p] = "reply" /\ loc'[p].reply = "invalid"
                /\ db' = db
                /\ sessions' = sessions
                /\ [sessions[loc[p].chatID] EXCEPT !.left = 0]
                       = [loc[p].sess EXCEPT !.left = 0]
          /\ (/\ pc[p] = "idle" /\ pc'[p] # "idle"
              /\ HasPrefix(loc'[p].data, Str("riskimp_"))
              /\ Len(C24_Fields(loc'[p].data)) = 3
              /\ \/ C24_OutOfRange(C24_Fields(loc'[p].data)[2], 1, 4)
                 \/ C24_OutOfRange(C24_Fields(loc'[p].data)[3], 1, 4))
             => /\ pc'[p] = "reply" /\ loc'[p].reply = "invalid"
                /\ db' = db
                /\ sessions' = sessions
          /\ (pc[p] = "reply" /\ loc[p].reply = "invalid")
             => db' = db /\ sessions' = sessions]_vars

\* C24, witness: the change-weight form was answered "101"; the error is
\* about to be sent and the form still waits for the weight of u1
C24_Witness ==
    \E p \in Procs :
        /\ pc[p] = "reply"
        /\ loc[p].reply = "invalid"
        /\ loc[p].text = "101"
        /\ loc[p].sess.step = StepChangeRateWeight
        /\ sessions[loc[p].chatID].step = StepChangeRateWeight
        /\ sessions[loc[p].chatID].pendingUserID = "u1"
        /\ users["u1"].weight = 1

\* C24, witness: a token with impact 5 is answered with the error while a
\* session of the chat is pending
C24_WitnessToken ==
    \E p \in Procs :
        /\ pc[p] = "reply"
        /\ loc[p].reply = "invalid"
        /\ loc[p].data = RiskImpToken(UUIDs["r1"], "4", "5")
        /\ risk_scores["r1"] = {}

\* C25: every stored user has a weight in 0..100, and neither /adduser with
\* its arguments, nor the add-user form, nor the change-weight form hands a
\* weight outside that range to the repository.
C25_WeightsInRange ==
    /\ \A u \in Users :
          users[u].exists => users[u].weight >= 0 /\ users[u].weight <= 100
    /\ \A p \in Procs :
          pc[p] \in {"hau_create", "hsi_create_user", "hsi_weight"}
              => loc[p].weight >= 0 /\ loc[p].weight <= 100

\* C25, witness: /adduser has stored u2 with weight 100 and the change-weight
\* form has set the weight of u1 to 0
C25_Witness ==
    /\ users["u2"].exists /\ users["u2"].weight = 100
    /\ users["u1"].weight = 0

\* C25, witness: the add-user form has stored u2 with the weight typed "+7"
C25_WitnessForm ==
    \E p \in Procs :
        /\ pc[p] = "reply" /\ loc[p].reply = "done"
        /\ loc[p].sess.step = StepAddUserWeight
        /\ users["u2"].exists /\ users["u2"].weight = 7

\* probability x impact of a row, and a weighted score between lo and hi
C26_Value(rs) == rs.probability * rs.impact
C26_Between(q, lo, hi) == q.n >= lo * q.d /\ q.n <= hi * q.d

\* C26: every stored risk assessment has a probability and an impact in
\* 1..4, so that its value is in 1..16; every stored weighted score of a
\* risk is 0 or lies in [1, 16]; and handleRiskImpact hands no factor
\* outside 1..4 to the repository.
C26_RiskFactorsInRange ==
    /\ \A r \in Risks : \A rs \in risk_scores[r] :
          /\ rs.probability \in 1..4
          /\ rs.impact \in 1..4
          /\ C26_Value(rs) \in 1..16
    /\ \A r \in Risks :
          risks[r].weighted_score # NilQ
              => \/ risks[r].weighted_score = QInt(0)
                 \/ C26_Between(risks[r].weighted_score, 1, 16)
    /\ \A p \in Procs :
          pc[p] = "hri_create"
              => loc[p].score \in 1..4 /\ loc[p].weight \in 1..4

\* C26, witness: the risk has been scored 4 x 3 and its weighted score 12
\* is stored
C26_Witness ==
    /\ \E rs \in risk_scores["r1"] : rs.probability = 4 /\ rs.impact = 3
    /\ risks["r1"].status = StatusScored
    /\ risks["r1"].weighted_score = QInt(12)

\* C26, witness: the only scorer has weight 0 and the weighted score 0 is
\* stored
C26_WitnessZero ==
    /\ risk_scores["r1"] # {}
    /\ risks["r1"].status = StatusScored
    /\ risks["r1"].weighted_score = QInt(0)

\* every member of the team has an effort row of the epic and a row of
\* every risk of the epic
C27_AllWritten(e) ==
    \A u \in user_teams :
        /\ HasUserScoredEpic(e, u)
        /\ \A r \in RisksOf(e) : HasUserScoredRisk(r, u)

\* C27: scoring of the epic and of all its risks has started; under every
\* interleaving of the submissions, once every member of the team has
\* written the effort and the assessment of every risk and all handlers
\* have returned, every risk and the epic are SCORED and the epic has a
\* final score.
C27_NoCompletionLost ==
    \A e \in Epics :
        (AllIdle /\ C27_AllWritten(e))
            => /\ epics[e].status = StatusScored
               /\ epics[e].final_score # Nil
               /\ \A r \in RisksOf(e) : risks[r].status = StatusScored

\* C27, witness: both members have written effort and risk, the last two
\* submissions raced (both calls wrote the final score), all handlers have
\* returned and the epic is SCORED
C27_Witness ==
    /\ AllIdle
    /\ user_teams = Users
    /\ C27_AllWritten("e1")
    /\ epics["e1"].status = StatusScored
    /\ finalWrites["e1"] = 2

\* C27, second witness: the epic has a risk, both members have written the
\* effort and the assessment of the risk, and the risk and the epic are SCORED
C27_WitnessRisk ==
    /\ AllIdle
    /\ risks["r1"].exists
    /\ user_teams = Users
    /\ C27_AllWritten("e1")
    /\ risks["r1"].status = StatusScored
    /\ epics["e1"].status = StatusScored

\* the role aggregates of epic e in the database are those of its effort
\* rows: a row for every role with an effort row and for no other role,
\* each the weighted mean of the effort rows of the role
C28_AggregatesMatch(rolescores, rows) ==
    /\ DOMAIN rolescores = {sc.role : sc \in rows}
    /\ \A role \in DOMAIN rolescores :
          rolescores[role] = CalculateEpicRoleAvg(rows, role)

\* C28: when an epic becomes SCORED, its stored role aggregates are those of
\* its effort rows at that time: one row for each role with an effort row
\* and none for another role, each the weighted mean of the effort rows of
\* the role.
C28_AggregatesAtCompletion ==
    [][\A e \in Epics :
          (epics[e].status # StatusScored /\ epics'[e].status = StatusScored)
              => C28_AggregatesMatch(epic_role_scores'[e],
                                     epic_scores'[e])]_vars

\* C29: after a command whose cfg.Write() failed, the admin list in memory
\* holds the entries, in the order, it would hold had the failed command
\* never been issued, also when handlers of /addadmin and /removeadmin
\* interleave: whenever all handlers have returned, the list is the list of
\* the same run without the commands whose write failed.
C29_RollbackRestoresList == AllIdle => admins = adminsIdeal


\* a row of epics, risks or users is deleted in the step
C30_SomethingDeleted ==
    \/ \E e \in Epics : epics[e].exists /\ ~epics'[e].exists
    \/ \E r \in Risks : risks[r].exists /\ ~risks'[r].exists
    \/ \E u \in Users : users[u].exists /\ ~users'[u].exists

\* C30: an epic, a risk or a user is deleted only by the handler of an
\* adm_confirm_<action>_<id> token whose sender is a super-admin: no step of
\* a picker command, of a selection in a picker, of a deny or cancel token,
\* or of a confirm token from an admin or a user deletes a row.
C30_DeleteOnlyOnConfirmBySuperAdmin ==
    [][C30_SomethingDeleted
          => \E p \in Procs :
                /\ pc[p] = "hac_delete"
                /\ pc'[p] = "reply"
                /\ HasPrefix(loc[p].data, Str("adm_confirm_"))
                /\ loc[p].sender \in SuperAdmins]_vars

\* C30, witness: the confirm token of a super-admin has deleted the epic
\* and, by the cascade, its risk
C30_Witness ==
    \E p \in Procs :
        /\ pc[p] = "reply"
        /\ loc[p].reply = "done"
        /\ loc[p].sender = "super"
        /\ loc[p].data = Sprintf2("adm_confirm_", "deleteepic", UUIDs["e1"])
        /\ ~epics["e1"].exists
        /\ ~risks["r1"].exists

\* C30, second witness: after the picker and the selection of user u1 for
\* deletion, which deleted nothing, the confirm token has deleted the user
C30_WitnessUser ==
    \E p \in Procs :
        /\ pc[p] = "reply"
        /\ loc[p].reply = "done"
        /\ loc[p].data = Sprintf2("adm_confirm_", "deleteuser", UUIDs["u1"])
        /\ ops = 3
        /\ ~users["u1"].exists


\* C31: the add-epic flow can finish. Its first step: a reply at the number
\* step with a number that no epic uses moves the session to the name step
\* with the number stored.
C31_NumberStepAdvances ==
    [][\A p \in Procs :
          (/\ pc[p] = "hsi_switch"
           /\ pc'[p] # "hsi_switch"
           /\ loc[p].sess.step = StepAddEpicNumber
           /\ loc[p].text # ""
           /\ \A e \in Epics : epics[e].exists => EpicNumber[e] # loc[p].text)
              => /\ sessions'[loc[p].chatID].step = StepAddEpicName
                 /\ sessions'[loc[p].chatID].number = loc[p].text]_vars

\* C31: no behaviour reaches the name step, the description step or the
\* statement that creates the epic
C31_FlowNeverPassesNumberStep ==
    /\ \A c \in Chats : sessions[c].step \notin {StepAddEpicName, StepAddEpicDesc}
    /\ \A p \in Procs : pc[p] # "hsi_create_epic"


\* C32: when no handler is running, every risk of an epic that is SCORING or
\* SCORED is itself SCORING or SCORED: no risk of an epic sent for scoring
\* is NEW.
C32_NoNewRiskOfStartedEpic ==
    AllIdle =>
        \A r \in Risks :
            (/\ risks[r].exists
             /\ epics[risks[r].epic].exists
             /\ epics[risks[r].epic].status \in {StatusScoring, StatusScored})
                => risks[r].status \in {StatusScoring, StatusScored}


\* C33: an assessment is stored only for a target that is SCORING: a step
\* that inserts or changes an effort row of an epic finds the epic SCORING,
\* and a step that inserts or changes a row of risk_scores finds the risk
\* SCORING.
C33_StoredOnlyWhileScoring ==
    [][/\ \A e \in Epics :
             epic_scores'[e] \ epic_scores[e] # {}
                 => epics[e].status = StatusScoring
       /\ \A r \in Risks :
             risk_scores'[r] \ risk_scores[r] # {}
                 => risks[r].status = StatusScoring]_vars


\* C34: in every reachable state every stored effort assessment has a value
\* in [0,500], whether it came from a reply of the score-effort step or from
\* a score_epic_<epicID>_<value> token.
C34_EffortInRange ==
    \A e \in Epics : \A row \in epic_scores[e] : row.score \in 0..500


\* ------------------------------------------ one chat shared by the members
\* the score menu, the effort replies and the score_epic_ tokens of a chat
\* in which both members of the team write, one update after the other
NextShared ==
    \/ AllIdle /\ Show(ChatsConc)
    \/ \E p \in Procs : sendReply(p)
    \/ \E p \in Procs : HSI_Clear(p)
    \/ \E p \in Procs : HSI_CreateEpicScore(p)
    \/ \E p \in Procs : HES_Create(p)
    \/ \E p \in Procs : TryCompleteEpicScoring(p)
    \/ /\ AllIdle
       /\ ops < MaxOpsShared
       /\ \E p \in Procs, c \in ChatsConc :
             \/ \E from \in Users, text \in EffortTexts :
                    HSI_GetFrom(p, c, from, text)
             \/ \E u \in Users, data \in EpicScoreTokens :
                    handleEpicScoreSubmit(p, c, u, data)

SpecShared == InitSubmit /\ [][NextShared]_vars

\* C35: an effort assessment is stored for a participant only as a result of
\* input sent by that participant: the row that the reply step inserts or
\* overwrites belongs to the sender of the reply.
C35_StoredForSender ==
    [][\A p \in Procs :
          pc[p] = "hsi_create"
              => \A e \in Epics :
                    \A row \in epic_scores'[e] \ epic_scores[e] :
                        row.user = loc[p].sender]_vars


\* ------------------------------------------------- the pickers of a chat
\* the clicks on the user buttons of /assignrole, /assignteam, /unassignrole
\* and /removefromteam and on the role and team buttons of the pickers they
\* send, one after the other in one chat; the history keeps the pickers on
\* the screen
PickerTokens ==
    {Sprintf2("adm_user_", a, UUIDs[u]) :
        a \in {"assignrole", "assignteam"}, u \in Users}
    \cup {Sprintf2("adm_user_", a, UUIDs["u1"]) :
             a \in {"unassignrole", "removefromteam"}}
    \cup {Sprintf2("adm_role_", "assignrole", UUIDs["qa"]),
          Sprintf2("adm_role_", "unassignrole", UUIDs["dev"]),
          Sprintf2("adm_team_", "assignteam", UUIDs["t1"]),
          Sprintf2("adm_team_", "removefromteam", UUIDs["t1"])}

\* the senders of the clicks: an administrator of the configuration file and
\* a user who is none; no super-administrator sends anything
PickerSenders == Senders \ SuperAdmins

NextPicker ==
    \/ \E p \in Procs : sendReply(p)
    \/ \E p \in Procs : sendWithKeyboard(p)
    \/ \E p \in Procs : HAR_Set(p)
    \/ \E p \in Procs : HAR_Apply(p)
    \/ \E p \in Procs : HAT_Set(p)
    \/ \E p \in Procs : HAT_Apply(p)
    \/ /\ AllIdle
       /\ ops < MaxOpsPicker
       /\ \E p \in Procs, c \in ChatsConc, sender \in PickerSenders,
             data \in PickerTokens, forUser \in Users \cup {"none"} :
              ClickButton(p, c, sender, data, forUser)

SpecPicker == InitAdmin /\ [][NextPicker]_vars

\* C36: a role or team chosen from a picker is applied to the user for whom
\* that picker was shown: when the click on a button of the picker sent for
\* a user makes the handler go on to the assignment, the user it assigns to
\* is that user.
C36_AppliedToPickerUser ==
    [][\A p \in Procs :
          (/\ pc[p] = "idle"
           /\ pc'[p] \in {"har_set", "hat_set"}
           /\ pickers'.clicked # "none")
              => loc'[p].userID = pickers'.clicked]_vars


\* C37: the operations of super-administrators are executed only on behalf
\* of a super-administrator: in the behaviours of SpecPicker, where no
\* sender is a super-administrator, no user loses the role or the team
\* membership of the initial state and no weight changes.
C37_NothingRemovedByOthers ==
    /\ "u1" \in user_teams
    /\ \A u \in Users :
          /\ users[u].weight = 1
          /\ (IF u = "u1" THEN "dev" ELSE "qa") \in users[u].roles


\* --------------------------- /addadmin and /removeadmin, one after the other
\* the two commands with every update handled before the next one starts
NextConfigSeq ==
    \/ \E p \in Procs : sendReply(p)
    \/ \E p \in Procs : HAA_Load(p)
    \/ \E p \in Procs : HAA_Store(p)
    \/ \E p \in Procs : HAA_Write(p)
    \/ \E p \in Procs : HAA_RbLoad(p)
    \/ \E p \in Procs : HAA_RbStore(p)
    \/ \E p \in Procs : HRA_Index(p)
    \/ \E p \in Procs : HRA_Load(p)
    \/ \E p \in Procs : HRA_Store(p)
    \/ \E p \in Procs : HRA_Write(p)
    \/ \E p \in Procs : HRA_RbLoad(p)
    \/ \E p \in Procs : HRA_RbStore(p)
    \/ /\ AllIdle
       /\ ops < MaxOpsConfigSeq
       /\ \E p \in Procs, sender \in FlowSenders, args \in AdminArgs,
             fail \in BOOLEAN :
             \/ handleAddAdmin(p, "c1", sender, args, fail)
             \/ handleRemoveAdmin(p, "c1", sender, args, fail)

SpecConfigSeq == InitAdmin /\ [][NextConfigSeq]_vars

\* C38: after /removeadmin <username> reports success, the username is no
\* longer an administrator by the list (isAdmin holds for it only as a
\* super-administrator): when the handler goes on to the reply of success,
\* no entry of cfg.BotConfig.Admins is the username.
C38_RemovedIsNoAdmin ==
    [][\A p \in Procs :
          (/\ pc[p] = "hra_write"
           /\ pc'[p] = "reply"
           /\ loc'[p].reply = "removed")
              => \A i \in DOMAIN admins' : admins'[i] # loc[p].name]_vars


\* ------------------------------------------- the replies to one pending form
\* a form of the chat waits for its last reply (the description of a risk
\* of e1, no risk being stored yet, or the weight of the new user u2) when
\* the replies arrive, every update handled in its own goroutine; nothing
\* opens another form
InitSingle ==
    \E step \in {StepAddRiskDesc, StepAddUserWeight} :
        InitScoring([u \in Users |->
                        IF u = "u1"
                        THEN [exists |-> TRUE, weight |-> 1, role |-> "dev",
                              roles |-> {"dev"}]
                        ELSE [exists |-> FALSE, weight |-> 0,
                              role |-> "none", roles |-> {}]],
                    {"u1"}, {},
                    [c \in Chats |->
                        IF c \in ChatsConc
                        THEN [NewSession EXCEPT !.step = step,
                                                !.epicID = "e1",
                                                !.username = "u2",
                                                !.firstName = "ann",
                                                !.lastName = "ann",
                                                !.left = SessionTTL]
                        ELSE NoSession])

NextSingle ==
    \/ \E p \in Procs : sendReply(p)
    \/ \E p \in Procs : HSI_Switch(p)
    \/ \E p \in Procs : HSI_CreateRisk(p)
    \/ \E p \in Procs : HSI_CreateUser(p)
    \/ Tick
    \/ /\ ops < MaxOpsSingle
       /\ \E p \in Procs, c \in ChatsConc, text \in TextInputs :
              HSI_Touch(p, c, text)

SpecSingle == InitSingle /\ [][NextSingle]_vars

\* C39: the terminal write of the flow of one pending session is executed at
\* most once: the add-risk form that waits in the initial state of
\* SpecSingle, where no risk is stored and no other form is opened, creates
\* at most one risk.
C39_OneTerminalWrite ==
    Cardinality({r \in Risks : risks[r].exists}) <= 1
====
